---- MODULE Spec2Model ----
(***************************************************************************)
(* A model of go-bip39 (v2): the entropy <-> mnemonic codec, the Mnemonic  *)
(* constructors, seed derivation, the entropy cipher and the size table.   *)
(*                                                                         *)
(* Bytes are the integers 0..255, byte slices are sequences of bytes, a    *)
(* big.Int is its big-endian magnitude without leading zero bytes (what    *)
(* big.Int.Bytes returns), and a string is its sequence of code points.    *)
(***************************************************************************)
EXTENDS Integers, Sequences, FiniteSets, TLC

(***************************************************************************)
(* Bitwise arithmetic on machine integers.  A nibble table gives the       *)
(* operation on 4 bits; bytes and 16-bit halves are combined from nibbles. *)
(***************************************************************************)
Xor4Table ==
  <<<<0,1,2,3,4,5,6,7,8,9,10,11,12,13,14,15>>,
    <<1,0,3,2,5,4,7,6,9,8,11,10,13,12,15,14>>,
    <<2,3,0,1,6,7,4,5,10,11,8,9,14,15,12,13>>,
    <<3,2,1,0,7,6,5,4,11,10,9,8,15,14,13,12>>,
    <<4,5,6,7,0,1,2,3,12,13,14,15,8,9,10,11>>,
    <<5,4,7,6,1,0,3,2,13,12,15,14,9,8,11,10>>,
    <<6,7,4,5,2,3,0,1,14,15,12,13,10,11,8,9>>,
    <<7,6,5,4,3,2,1,0,15,14,13,12,11,10,9,8>>,
    <<8,9,10,11,12,13,14,15,0,1,2,3,4,5,6,7>>,
    <<9,8,11,10,13,12,15,14,1,0,3,2,5,4,7,6>>,
    <<10,11,8,9,14,15,12,13,2,3,0,1,6,7,4,5>>,
    <<11,10,9,8,15,14,13,12,3,2,1,0,7,6,5,4>>,
    <<12,13,14,15,8,9,10,11,4,5,6,7,0,1,2,3>>,
    <<13,12,15,14,9,8,11,10,5,4,7,6,1,0,3,2>>,
    <<14,15,12,13,10,11,8,9,6,7,4,5,2,3,0,1>>,
    <<15,14,13,12,11,10,9,8,7,6,5,4,3,2,1,0>>>>
And4Table ==
  <<<<0,0,0,0,0,0,0,0,0,0,0,0,0,0,0,0>>,
    <<0,1,0,1,0,1,0,1,0,1,0,1,0,1,0,1>>,
    <<0,0,2,2,0,0,2,2,0,0,2,2,0,0,2,2>>,
    <<0,1,2,3,0,1,2,3,0,1,2,3,0,1,2,3>>,
    <<0,0,0,0,4,4,4,4,0,0,0,0,4,4,4,4>>,
    <<0,1,0,1,4,5,4,5,0,1,0,1,4,5,4,5>>,
    <<0,0,2,2,4,4,6,6,0,0,2,2,4,4,6,6>>,
    <<0,1,2,3,4,5,6,7,0,1,2,3,4,5,6,7>>,
    <<0,0,0,0,0,0,0,0,8,8,8,8,8,8,8,8>>,
    <<0,1,0,1,0,1,0,1,8,9,8,9,8,9,8,9>>,
    <<0,0,2,2,0,0,2,2,8,8,10,10,8,8,10,10>>,
    <<0,1,2,3,0,1,2,3,8,9,10,11,8,9,10,11>>,
    <<0,0,0,0,4,4,4,4,8,8,8,8,12,12,12,12>>,
    <<0,1,0,1,4,5,4,5,8,9,8,9,12,13,12,13>>,
    <<0,0,2,2,4,4,6,6,8,8,10,10,12,12,14,14>>,
    <<0,1,2,3,4,5,6,7,8,9,10,11,12,13,14,15>>>>
Or4Table ==
  <<<<0,1,2,3,4,5,6,7,8,9,10,11,12,13,14,15>>,
    <<1,1,3,3,5,5,7,7,9,9,11,11,13,13,15,15>>,
    <<2,3,2,3,6,7,6,7,10,11,10,11,14,15,14,15>>,
    <<3,3,3,3,7,7,7,7,11,11,11,11,15,15,15,15>>,
    <<4,5,6,7,4,5,6,7,12,13,14,15,12,13,14,15>>,
    <<5,5,7,7,5,5,7,7,13,13,15,15,13,13,15,15>>,
    <<6,7,6,7,6,7,6,7,14,15,14,15,14,15,14,15>>,
    <<7,7,7,7,7,7,7,7,15,15,15,15,15,15,15,15>>,
    <<8,9,10,11,12,13,14,15,8,9,10,11,12,13,14,15>>,
    <<9,9,11,11,13,13,15,15,9,9,11,11,13,13,15,15>>,
    <<10,11,10,11,14,15,14,15,10,11,10,11,14,15,14,15>>,
    <<11,11,11,11,15,15,15,15,11,11,11,11,15,15,15,15>>,
    <<12,13,14,15,12,13,14,15,12,13,14,15,12,13,14,15>>,
    <<13,13,15,15,13,13,15,15,13,13,15,15,13,13,15,15>>,
    <<14,15,14,15,14,15,14,15,14,15,14,15,14,15,14,15>>,
    <<15,15,15,15,15,15,15,15,15,15,15,15,15,15,15,15>>>>

\* 2^n for n in 0..16, as Pow2[n + 1].
Pow2 ==
  <<1, 2, 4, 8, 16, 32, 64, 128, 256, 512, 1024, 2048, 4096, 8192, 16384,
    32768, 65536>>

Xor8(a, b) ==
  16 * Xor4Table[(a \div 16) + 1][(b \div 16) + 1]
    + Xor4Table[(a % 16) + 1][(b % 16) + 1]

And8(a, b) ==
  16 * And4Table[(a \div 16) + 1][(b \div 16) + 1]
    + And4Table[(a % 16) + 1][(b % 16) + 1]

Or8(a, b) ==
  16 * Or4Table[(a \div 16) + 1][(b \div 16) + 1]
    + Or4Table[(a % 16) + 1][(b % 16) + 1]

Xor16[a \in 0..65535, b \in 0..65535] ==
  4096 * Xor4Table[(a \div 4096) + 1][(b \div 4096) + 1]
    + (256 * Xor4Table[((a \div 256) % 16) + 1][((b \div 256) % 16) + 1]
         + (16 * Xor4Table[((a \div 16) % 16) + 1][((b \div 16) % 16) + 1]
              + Xor4Table[(a % 16) + 1][(b % 16) + 1]))

And16[a \in 0..65535, b \in 0..65535] ==
  4096 * And4Table[(a \div 4096) + 1][(b \div 4096) + 1]
    + (256 * And4Table[((a \div 256) % 16) + 1][((b \div 256) % 16) + 1]
         + (16 * And4Table[((a \div 16) % 16) + 1][((b \div 16) % 16) + 1]
              + And4Table[(a % 16) + 1][(b % 16) + 1]))

(***************************************************************************)
(* crypto/sha256 (FIPS 180-4).  A 32-bit word is <<high 16 bits, low 16    *)
(* bits>>, so that no intermediate value leaves the 32-bit integer range.  *)
(***************************************************************************)
SHA256K ==
  <<<<17034,12184>>,<<28983,17553>>,<<46528,64463>>,<<59829,56229>>,
    <<14678,49755>>,<<23025,4593>>,<<37439,33444>>,<<43804,24277>>,
    <<55303,43672>>,<<4739,23297>>,<<9265,34238>>,<<21772,32195>>,
    <<29374,23924>>,<<32990,45566>>,<<39900,1703>>,<<49563,61812>>,
    <<58523,27073>>,<<61374,18310>>,<<4033,40390>>,<<9228,41420>>,
    <<11753,11375>>,<<19060,33962>>,<<23728,43484>>,<<30457,35034>>,
    <<38974,20818>>,<<43057,50797>>,<<45059,10184>>,<<48985,32711>>,
    <<50912,3059>>,<<54695,37191>>,<<1738,25425>>,<<5161,10599>>,
    <<10167,2693>>,<<11803,8504>>,<<19756,28156>>,<<21304,3347>>,
    <<25866,29524>>,<<30314,2747>>,<<33218,51502>>,<<37490,11397>>,
    <<41663,59553>>,<<43034,26187>>,<<49739,35696>>,<<51052,20899>>,
    <<53650,59417>>,<<54937,1572>>,<<62478,13701>>,<<4202,41072>>,
    <<6564,49430>>,<<7735,27656>>,<<10056,30540>>,<<13488,48309>>,
    <<14620,3251>>,<<20184,43594>>,<<23452,51791>>,<<26670,28659>>,
    <<29839,33518>>,<<30885,25455>>,<<33992,30740>>,<<36039,520>>,
    <<37054,65530>>,<<42064,27883>>,<<48889,41975>>,<<50801,30962>>>>

SHA256H0 ==
  <<<<27145,58983>>,<<47975,44677>>,<<15470,62322>>,<<42319,62778>>,
    <<20750,21119>>,<<39685,26764>>,<<8067,55723>>,<<23520,52505>>>>

\* The 32-bit words.
Word == (0..65535) \X (0..65535)

WXor[x \in Word, y \in Word] == <<Xor16[x[1], y[1]], Xor16[x[2], y[2]]>>

WAnd[x \in Word, y \in Word] == <<And16[x[1], y[1]], And16[x[2], y[2]]>>

WNot[x \in Word] == <<65535 - x[1], 65535 - x[2]>>

\* Addition modulo 2^32.
WAdd[x \in Word, y \in Word] ==
  <<(x[1] + y[1] + ((x[2] + y[2]) \div 65536)) % 65536,
    (x[2] + y[2]) % 65536>>

\* Rotate right by n, 0 <= n < 32.
Rotr[x \in Word, n \in 0..31] ==
  LET h == IF n >= 16 THEN x[2] ELSE x[1]
      l == IF n >= 16 THEN x[1] ELSE x[2]
      p == Pow2[(n % 16) + 1]
      q == Pow2[17 - (n % 16)]
  IN  <<(h \div p) + (l % p) * q, (l \div p) + (h % p) * q>>

\* Shift right by n, 0 <= n < 16.
Shr[x \in Word, n \in 0..15] ==
  <<x[1] \div Pow2[n + 1],
    (x[2] \div Pow2[n + 1]) + (x[1] % Pow2[n + 1]) * Pow2[17 - n]>>

BigSigma0[x \in Word] == WXor[WXor[Rotr[x, 2], Rotr[x, 13]], Rotr[x, 22]]

BigSigma1[x \in Word] == WXor[WXor[Rotr[x, 6], Rotr[x, 11]], Rotr[x, 25]]

SmallSigma0[x \in Word] == WXor[WXor[Rotr[x, 7], Rotr[x, 18]], Shr[x, 3]]

SmallSigma1[x \in Word] == WXor[WXor[Rotr[x, 17], Rotr[x, 19]], Shr[x, 10]]

Ch[x \in Word, y \in Word, z \in Word] ==
  WXor[WAnd[x, y], WAnd[WNot[x], z]]

Maj[x \in Word, y \in Word, z \in Word] ==
  WXor[WXor[WAnd[x, y], WAnd[x, z]], WAnd[y, z]]

\* n zero bytes.
ZeroBytes(n) == IF n <= 0 THEN <<>> ELSE [i \in 1..n |-> 0] \o <<>>

\* The padded message: 0x80, zeros up to 56 mod 64, the bit length on 8 bytes.
SHA256Pad(data) ==
  LET n == Len(data)
      z == (55 - n) % 64
      bits == 8 * n
  IN  data \o <<128>> \o ZeroBytes(z) \o <<0, 0, 0, 0>>
        \o <<bits \div 16777216, (bits \div 65536) % 256,
             (bits \div 256) % 256, bits % 256>>

\* The 16 big-endian words of the block starting after byte off.
SHA256BlockWords(m, off) ==
  [i \in 1..16 |->
     <<256 * m[off + 4 * i - 3] + m[off + 4 * i - 2],
       256 * m[off + 4 * i - 1] + m[off + 4 * i]>>]

\* The message schedule w extended by k words: word i, the next one, is made
\* of words i - 2, i - 7, i - 15 and i - 16.  Half of the k words are added
\* and then the other half.
SHA256Extend[w \in Seq(Word), k \in 0..48] ==
  IF k > 1 THEN SHA256Extend[SHA256Extend[w, k \div 2], k - (k \div 2)]
  ELSE IF k = 1
  THEN Append(w, WAdd[WAdd[SmallSigma1[w[Len(w) - 1]], w[Len(w) - 6]],
                      WAdd[SmallSigma0[w[Len(w) - 14]], w[Len(w) - 15]]])
  ELSE w

\* The message schedule, extended from 16 to 64 words.
SHA256Schedule(w) == SHA256Extend[w, 64 - Len(w)]

\* The working variables after a round that computed t1 and t2.
SHA256Rotate[s \in Seq(Word), t1 \in Word, t2 \in Word] ==
  <<WAdd[t1, t2], s[1], s[2], s[3], WAdd[s[4], t1], s[5], s[6], s[7]>>

\* One round of the compression function: working variables s, schedule word
\* wi, round constant ki.  (t1 is the sum modulo 2^32 of s[8], BigSigma1, Ch,
\* ki and wi.)
SHA256Round(s, wi, ki) ==
  SHA256Rotate[s,
               WAdd[BigSigma1[s[5]],
                    WAdd[Ch[s[5], s[6], s[7]], WAdd[s[8], WAdd[ki, wi]]]],
               WAdd[BigSigma0[s[1]], Maj[s[1], s[2], s[3]]]]

\* Rounds lo..hi of the compression function on working variables s: the
\* first half of them and then the second.
SHA256Rounds[s \in Seq(Word), w \in Seq(Word), lo \in 1..64, hi \in 1..64] ==
  IF lo < hi
  THEN SHA256Rounds[SHA256Rounds[s, w, lo, (lo + hi) \div 2], w,
                    ((lo + hi) \div 2) + 1, hi]
  ELSE SHA256Round(s, w[lo], SHA256K[lo])

\* The hash state h plus the working variables s, word by word.
SHA256AddState(h, s) == [i \in 1..8 |-> WAdd[h[i], s[i]]] \o <<>>

\* The hash state after the block whose message schedule is w.
SHA256Block(h, w) == SHA256AddState(h, SHA256Rounds[h, w, 1, 64])

\* The hash state after the blocks of m from offset off on.
RECURSIVE SHA256Blocks(_, _, _)
SHA256Blocks(h, m, off) ==
  IF off >= Len(m) \/ Len(h) # 8 THEN h
  ELSE SHA256Blocks(
         SHA256Block(h, SHA256Schedule(SHA256BlockWords(m, off) \o <<>>)),
         m, off + 64)

\* A 32-bit word as 4 big-endian bytes.
WordBytes(x) == <<x[1] \div 256, x[1] % 256, x[2] \div 256, x[2] % 256>>

\* The hash state h as 32 bytes.
SHA256Digest(h) ==
  WordBytes(h[1])
    \o (WordBytes(h[2])
          \o (WordBytes(h[3])
                \o (WordBytes(h[4])
                      \o (WordBytes(h[5])
                            \o (WordBytes(h[6])
                                  \o (WordBytes(h[7]) \o WordBytes(h[8])))))))

\* sha256.Sum256(data): the 32-byte digest of data.
SHA256Sum(data) == SHA256Digest(SHA256Blocks(SHA256H0, SHA256Pad(data), 0))

(***************************************************************************)
(* math/big.  A big.Int (never negative here) is the sequence of its       *)
(* big-endian bytes without leading zeros; zero is the empty sequence.     *)
(* Multipliers and divisors are the package's operands (2, 2048, 2^k with  *)
(* k <= 8): they fit a machine integer, so Mul and Div work byte by byte.  *)
(***************************************************************************)
\* b without its leading zero bytes.
StripZeros(b) ==
  IF \A i \in 1..Len(b) : b[i] = 0 THEN <<>>
  ELSE SubSeq(b, CHOOSE i \in 1..Len(b) :
                   b[i] # 0 /\ \A j \in 1..(i - 1) : b[j] = 0,
              Len(b))

\* new(big.Int).SetBytes(buf)
BigSetBytes(buf) == StripZeros(buf)

\* x.Bytes()
BigBytes(x) == x

\* big.NewInt(n), 0 <= n < 2^31
RECURSIVE BigNewInt(_)
BigNewInt(n) == IF n <= 0 THEN <<>> ELSE BigNewInt(n \div 256) \o <<n % 256>>

\* The value of a big.Int of at most 3 bytes.
RECURSIVE BigSmallValue(_)
BigSmallValue(x) ==
  IF Len(x) = 0 THEN 0
  ELSE 256 * BigSmallValue(SubSeq(x, 1, Len(x) - 1)) + x[Len(x)]

\* x.IsInt64()
BigIsInt64(x) == Len(x) < 8 \/ (Len(x) = 8 /\ x[1] < 128)

\* Byte i (1 = least significant) of x, 0 beyond its length.
BigByteAt(x, i) == IF i <= Len(x) THEN x[Len(x) + 1 - i] ELSE 0

\* The n low bytes of a bytewise operation on x and y, most significant first.
BigBytewise(op, x, y, n) ==
  IF n = 0 THEN <<>>
  ELSE [i \in 1..n |->
          CASE op = "and" -> And8(BigByteAt(x, n + 1 - i), BigByteAt(y, n + 1 - i))
            [] op = "or" -> Or8(BigByteAt(x, n + 1 - i), BigByteAt(y, n + 1 - i))
            [] OTHER -> Xor8(BigByteAt(x, n + 1 - i), BigByteAt(y, n + 1 - i))]
         \o <<>>

\* z.And(x, y)
BigAnd(x, y) ==
  StripZeros(BigBytewise("and", x, y, IF Len(x) < Len(y) THEN Len(x) ELSE Len(y)))

\* z.Or(x, y)
BigOr(x, y) ==
  BigBytewise("or", x, y, IF Len(x) < Len(y) THEN Len(y) ELSE Len(x))

\* The bytes computed so far by a multiplication or division that goes byte
\* by byte, and what is carried over to the next byte.
BigPartial == [bytes : Seq(0..255), over : Nat]

\* x times the machine integer m, from the least significant byte on: r has
\* the bytes of the product so far and the carry over them.  The low half of
\* x is multiplied and then the high half.
BigMulSmall[x \in Seq(0..255), m \in Nat, r \in BigPartial] ==
  IF Len(x) > 1
  THEN BigMulSmall[SubSeq(x, 1, Len(x) \div 2), m,
                   BigMulSmall[SubSeq(x, (Len(x) \div 2) + 1, Len(x)), m, r]]
  ELSE IF Len(x) = 1
  THEN [bytes |-> <<(x[1] * m + r.over) % 256>> \o r.bytes,
        over |-> (x[1] * m + r.over) \div 256]
  ELSE r

\* z.Mul(x, y), y < 2^16: the result has two bytes more than x, which take
\* the last carry.
BigMul(x, y) ==
  StripZeros(BigMulSmall[<<0, 0>> \o x, BigSmallValue(y),
                         [bytes |-> <<>>, over |-> 0]].bytes)

\* x by the machine integer d, from the most significant byte on: r has the
\* bytes of the quotient so far and the remainder under them.  The high half
\* of x is divided and then the low half.
BigDivSmall[x \in Seq(0..255), d \in Nat, r \in BigPartial] ==
  IF Len(x) > 1
  THEN BigDivSmall[SubSeq(x, (Len(x) \div 2) + 1, Len(x)), d,
                   BigDivSmall[SubSeq(x, 1, Len(x) \div 2), d, r]]
  ELSE IF Len(x) = 1
  THEN [bytes |-> r.bytes \o <<(256 * r.over + x[1]) \div d>>,
        over |-> (256 * r.over + x[1]) % d]
  ELSE r

\* z.Div(x, y), 0 < y < 2^16
BigDiv(x, y) ==
  StripZeros(BigDivSmall[x, BigSmallValue(y), [bytes |-> <<>>, over |-> 0]].bytes)

(***************************************************************************)
(* The package's shared operands and the size table.                       *)
(***************************************************************************)
bigOne == BigNewInt(1)

bigTwo == BigNewInt(2)

wordANDMask == BigNewInt(2047)

wordShiftOperand == BigNewInt(2048)

sizes ==
  <<[wordLen |-> 12, entropyLen |-> 16, checksumBitLen |-> 4,
     checksumANDMask |-> BigNewInt(15), checksumShiftOperand |-> BigNewInt(16)],
    [wordLen |-> 15, entropyLen |-> 20, checksumBitLen |-> 5,
     checksumANDMask |-> BigNewInt(31), checksumShiftOperand |-> BigNewInt(32)],
    [wordLen |-> 18, entropyLen |-> 24, checksumBitLen |-> 6,
     checksumANDMask |-> BigNewInt(63), checksumShiftOperand |-> BigNewInt(64)],
    [wordLen |-> 21, entropyLen |-> 28, checksumBitLen |-> 7,
     checksumANDMask |-> BigNewInt(127), checksumShiftOperand |-> BigNewInt(128)],
    [wordLen |-> 24, entropyLen |-> 32, checksumBitLen |-> 8,
     checksumANDMask |-> BigNewInt(255), checksumShiftOperand |-> BigNewInt(256)]>>

\* Go's integer division, which truncates toward zero.
GoDiv(a, b) == IF a >= 0 THEN a \div b ELSE -((-a) \div b)

\* An error value; word is set for ErrUnknownWord only.
Err(kind) == [kind |-> kind, word |-> <<>>]

NoErr == Err("nil")

ErrUnknownWord(word) == [kind |-> "ErrUnknownWord", word |-> word]

\* The index into sizes (from 0) that the code projects a length to.
sizeParamsFromEntropyLen(l) ==
  LET sizeType == GoDiv(l - 16, 4)
  IN  IF sizeType < 0 \/ sizeType > 4
      THEN [sizeType |-> -1, err |-> Err("ErrEntropyInvalidLength")]
      ELSE [sizeType |-> sizeType, err |-> NoErr]

sizeParamsFromWordSetLen(l) ==
  LET sizeType == GoDiv(l - 12, 3)
  IN  IF sizeType < 0 \/ sizeType > 4
      THEN [sizeType |-> -1, err |-> Err("ErrWordSetInvalidLength")]
      ELSE [sizeType |-> sizeType, err |-> NoErr]

\* padByteSlice(slice, padToLen)
padByteSlice(slice, padToLen) ==
  LET offset == padToLen - Len(slice)
  IN  IF offset <= 0 THEN slice ELSE ZeroBytes(offset) \o slice

\* firstSHA256Byte(data)
firstSHA256Byte(data) == SHA256Sum(data)[1]

\* addChecksum's loop taking checksum bit i counted from the right.
RECURSIVE addChecksumLoopFromRight(_, _, _, _)
addChecksumLoopFromRight(entropy, cs, i, checksumBitLen) ==
  IF i >= checksumBitLen \/ Len(entropy) < 0 THEN entropy
  ELSE LET shifted == BigMul(entropy, bigTwo)
       IN  addChecksumLoopFromRight(
             IF And8(cs, Pow2[i + 1]) > 0 THEN BigOr(shifted, bigOne)
             ELSE shifted,
             cs, i + 1, checksumBitLen)

\* The loop of addChecksum from bit i on: shift left, then set the low bit to
\* checksum bit i counted from the left.
RECURSIVE addChecksumLoop(_, _, _, _)
addChecksumLoop(entropy, cs, i, checksumBitLen) ==
  IF i >= checksumBitLen \/ Len(entropy) < 0 THEN entropy
  ELSE LET shifted == BigMul(entropy, bigTwo)
       IN  addChecksumLoop(
             IF And8(cs, Pow2[8 - i]) > 0 THEN BigOr(shifted, bigOne)
             ELSE shifted,
             cs, i + 1, checksumBitLen)

\* addChecksum(size, rawEntropy)
addChecksum(size, rawEntropy) ==
  [cs \in 0..255 |->
     padByteSlice(
       BigBytes(addChecksumLoop(BigSetBytes(rawEntropy), cs, 0,
                                size.checksumBitLen)),
       size.entropyLen + 1)][firstSHA256Byte(rawEntropy)]

(***************************************************************************)
(* Language: a word list of 2048 unique words (wordSet) and its inverse    *)
(* (indices).  Word i spells the three base-16 digits of i.  The "latin"   *)
(* list writes a digit as one of the letters a..p; the "kana" list writes  *)
(* it as a hiragana, digit 15 being KA followed by the combining voiced    *)
(* sound mark (GA in decomposed form), as NFKD word lists store it.        *)
(***************************************************************************)
Languages == {"latin", "kana"}

KanaDigits ==
  <<12354, 12356, 12358, 12360, 12362, 12365, 12367, 12369, 12371, 12373,
    12375, 12377, 12379, 12381, 12383>>

KanaKA == 12363

KanaVoicedMark == 12441

KanaGA == 12364

IdeographicSpace == 12288

WordListSize == 2048

\* How the list of lang writes the base-16 digit d.
DigitSym(lang, d) ==
  IF lang = "latin" THEN <<97 + d>>
  ELSE IF d = 15 THEN <<KanaKA, KanaVoicedMark>>
  ELSE <<KanaDigits[d + 1]>>

\* lang.wordSet[index]
WordAt(lang, index) ==
  DigitSym(lang, index \div 256) \o DigitSym(lang, (index \div 16) % 16)
    \o DigitSym(lang, index % 16)

\* The digits that word spells from code point i on, <<-1>> included where it
\* spells none.
RECURSIVE ParseDigits(_, _, _)
ParseDigits(lang, word, i) ==
  IF i > Len(word) THEN <<>>
  ELSE LET one == {d \in 0..15 : DigitSym(lang, d) = <<word[i]>>}
           two == IF i < Len(word)
                  THEN {d \in 0..15 : DigitSym(lang, d) = <<word[i], word[i + 1]>>}
                  ELSE {}
       IN  IF two # {} THEN <<CHOOSE d \in two : TRUE>> \o ParseDigits(lang, word, i + 2)
           ELSE IF one # {} THEN <<CHOOSE d \in one : TRUE>> \o ParseDigits(lang, word, i + 1)
           ELSE <<-1>>

\* The index that three digits spell, if they are digits of an index.
LookupDigits(ds) ==
  IF Len(ds) = 3 /\ ds[1] >= 0 /\ ds[2] >= 0 /\ ds[3] >= 0
     /\ 256 * ds[1] + 16 * ds[2] + ds[3] < WordListSize
  THEN [index |-> 256 * ds[1] + 16 * ds[2] + ds[3], found |-> TRUE]
  ELSE [index |-> 0, found |-> FALSE]

\* lang.indices[word]
LookupWord(lang, word) == LookupDigits(ParseDigits(lang, word, 1))

(***************************************************************************)
(* The codec.  A result is a record of the value returned and the error.   *)
(***************************************************************************)
\* binary.BigEndian.Uint16(b)
Uint16(b) == 256 * b[1] + b[2]

\* What the loop of wordsFromEntropy works on: entropyInt and words.
EncodeStates == [entropyInt : Seq(0..255), words : Seq(Seq(Nat))]

\* One pass of the loop of wordsFromEntropy, for slot i: mask the low 11
\* bits for the word of the slot, shift right by 11.
wordsFromEntropyStep(lang, st, i) ==
  [entropyInt |-> BigDiv(st.entropyInt, wordShiftOperand),
   words |-> [st.words EXCEPT ![i + 1] =
                WordAt(lang,
                       Uint16(padByteSlice(
                                BigBytes(BigAnd(st.entropyInt, wordANDMask)),
                                2)))]]

\* The passes of the loop of wordsFromEntropy for slots hi down to lo, on
\* entropyInt and words as st has them: the upper half of the slots and then
\* the lower.
wordsFromEntropyLoop[lang \in Languages, st \in EncodeStates, lo \in Nat, hi \in Nat] ==
  IF lo < hi
  THEN wordsFromEntropyLoop[
         lang, wordsFromEntropyLoop[lang, st, ((lo + hi) \div 2) + 1, hi],
         lo, (lo + hi) \div 2]
  ELSE wordsFromEntropyStep(lang, st, lo)

\* wordsFromEntropy once the size lookup returned sp.
wordsFromEntropySized(lang, entropy, sp) ==
  IF sp.err # NoErr THEN [words |-> <<>>, err |-> sp.err]
  ELSE [words |->
          wordsFromEntropyLoop[
            lang,
            [entropyInt |->
               BigSetBytes(addChecksum(sizes[sp.sizeType + 1], entropy)),
             words |->
               [k \in 1..sizes[sp.sizeType + 1].wordLen |-> <<>>] \o <<>>],
            0, sizes[sp.sizeType + 1].wordLen - 1].words,
        err |-> NoErr]

\* wordsFromEntropy(lang, entropy): [words, err]
wordsFromEntropy(lang, entropy) ==
  wordsFromEntropySized(lang, entropy, sizeParamsFromEntropyLen(Len(entropy)))

\* What the loop of entropyFromWords works on: entropyAndChecksum, and the
\* error once a word was not found.
DecodeStates == [int : Seq(0..255), err : [kind : STRING, word : Seq(Nat)]]

\* One pass of the loop of entropyFromWords, for word i, once the lookup
\* returned l: acc is entropyAndChecksum.
entropyFromWordsStep(words, i, acc, l) ==
  IF ~l.found THEN [int |-> <<>>, err |-> ErrUnknownWord(words[i])]
  ELSE [int |-> BigOr(BigMul(acc, wordShiftOperand), BigNewInt(l.index)),
        err |-> NoErr]

\* The passes of the loop of entropyFromWords for words lo..hi, after passes
\* that gave r: the first half of the words and then the second.  The result
\* carries the first unknown word, if any, and the loop stops there.
entropyFromWordsLoop[lang \in Languages, words \in Seq(Seq(Nat)), lo \in Nat, hi \in Nat, r \in DecodeStates] ==
  IF r.err # NoErr THEN r
  ELSE IF lo < hi
  THEN entropyFromWordsLoop[
         lang, words, ((lo + hi) \div 2) + 1, hi,
         entropyFromWordsLoop[lang, words, lo, (lo + hi) \div 2, r]]
  ELSE entropyFromWordsStep(words, lo, r.int, LookupWord(lang, words[lo]))

\* The end of entropyFromWords comparing only the lowest checksum bit.
entropyFromWordsVerifyLowBit(sizeType, givenChecksum, rawEntropyBytes) ==
  IF ~BigIsInt64(givenChecksum)
     \/ BigAnd(givenChecksum, bigOne)
          # BigNewInt((firstSHA256Byte(rawEntropyBytes)
                         \div Pow2[8 - sizeType.checksumBitLen + 1]) % 2)
  THEN [entropy |-> <<>>, err |-> Err("ErrChecksumIncorrect")]
  ELSE [entropy |-> rawEntropyBytes, err |-> NoErr]

\* The end of entropyFromWords: compare the checksum given with the one
\* computed from the entropy bytes.
entropyFromWordsVerify(sizeType, givenChecksum, rawEntropyBytes) ==
  IF ~BigIsInt64(givenChecksum)
     \/ givenChecksum
          # BigNewInt(firstSHA256Byte(rawEntropyBytes)
                        \div Pow2[8 - sizeType.checksumBitLen + 1])
  THEN [entropy |-> <<>>, err |-> Err("ErrChecksumIncorrect")]
  ELSE [entropy |-> rawEntropyBytes, err |-> NoErr]

\* The split of entropyFromWords without padding the entropy bytes: leading
\* zero bytes are lost.
entropyFromWordsSplitNoPad(sizeType, r) ==
  IF r.err # NoErr THEN [entropy |-> <<>>, err |-> r.err]
  ELSE entropyFromWordsVerify(
         sizeType, BigAnd(r.int, sizeType.checksumANDMask),
         BigBytes(BigDiv(r.int, sizeType.checksumShiftOperand)))

\* entropyFromWords once the words gave r: split entropyAndChecksum.
entropyFromWordsSplit(sizeType, r) ==
  IF r.err # NoErr THEN [entropy |-> <<>>, err |-> r.err]
  ELSE entropyFromWordsVerify(
         sizeType, BigAnd(r.int, sizeType.checksumANDMask),
         padByteSlice(BigBytes(BigDiv(r.int, sizeType.checksumShiftOperand)),
                      sizeType.entropyLen))

\* entropyFromWords once the size lookup returned sp.
entropyFromWordsSized(lang, words, sp) ==
  IF sp.err # NoErr THEN [entropy |-> <<>>, err |-> sp.err]
  ELSE entropyFromWordsSplit(
         sizes[sp.sizeType + 1],
         entropyFromWordsLoop[lang, words, 1, Len(words),
                              [int |-> BigNewInt(0), err |-> NoErr]])

\* entropyFromWords(lang, words): [entropy, err]
entropyFromWords(lang, words) ==
  entropyFromWordsSized(lang, words, sizeParamsFromWordSetLen(Len(words)))

(***************************************************************************)
(* Strings are sequences of code points.  strings.Join, strings.Split,     *)
(* []byte(s) (UTF-8) and norm.NFKD.String on the code points the word      *)
(* lists, the separators and the test inputs use.                          *)
(***************************************************************************)
normalizedSeparator == <<32>>

\* strings.Join(words, sep)
RECURSIVE stringsJoin(_, _)
stringsJoin(words, sep) ==
  IF Len(words) = 0 THEN <<>>
  ELSE IF Len(words) = 1 THEN words[1]
  ELSE stringsJoin(SubSeq(words, 1, Len(words) \div 2), sep) \o sep
         \o stringsJoin(SubSeq(words, (Len(words) \div 2) + 1, Len(words)),
                        sep)

\* The position of the occurrence of sep, a separator of one code point,
\* that is nearest to the middle of s (the first of two equally near), 0
\* when sep does not occur in s.
stringsIndexMid(s, sep) ==
  LET at == {i \in 1..Len(s) : <<s[i]>> = sep}
      off(i) == IF 2 * i < Len(s) THEN Len(s) - 2 * i ELSE 2 * i - Len(s)
  IN  IF at = {} THEN 0
      ELSE CHOOSE i \in at :
             \A j \in at : off(i) < off(j) \/ (off(i) = off(j) /\ i <= j)

\* strings.Split(s, sep): s itself when sep does not occur in it (m = 0),
\* else the pieces of what is before the occurrence at m and then the pieces
\* of what is after it.
RECURSIVE stringsSplit(_, _)
\* stringsSplitAt leaving out the empty pieces, as strings.Fields does.
stringsSplitAtNoEmpty(s, sep, m) ==
  IF m = 0 THEN (IF s = <<>> THEN <<>> ELSE <<s>>)
  ELSE stringsSplit(SubSeq(s, 1, m - 1), sep)
         \o stringsSplit(SubSeq(s, m + 1, Len(s)), sep)

stringsSplitAt(s, sep, m) ==
  IF m = 0 THEN <<s>>
  ELSE stringsSplit(SubSeq(s, 1, m - 1), sep)
         \o stringsSplit(SubSeq(s, m + 1, Len(s)), sep)

stringsSplit(s, sep) == stringsSplitAt(s, sep, stringsIndexMid(s, sep))

\* The compatibility decomposition of one code point.
NFKDCodePoint(c) ==
  CASE c = IdeographicSpace -> <<32>>
    [] c = KanaGA -> <<KanaKA, KanaVoicedMark>>
    [] OTHER -> <<c>>

\* norm.NFKD.String(m): the decompositions of the code points of m in order
\* (no two combining marks of these code points need reordering), computed
\* half by half.
RECURSIVE NFKD(_)
NFKD(m) ==
  IF Len(m) = 0 THEN <<>>
  ELSE IF Len(m) = 1 THEN NFKDCodePoint(m[1])
  ELSE NFKD(SubSeq(m, 1, Len(m) \div 2))
         \o NFKD(SubSeq(m, (Len(m) \div 2) + 1, Len(m)))

\* normalizeMnemonicString(m)
normalizeMnemonicString(m) == NFKD(m)

\* parseRawMnemonic(rawMnemonic)
parseRawMnemonic(rawMnemonic) ==
  stringsSplit(normalizeMnemonicString(rawMnemonic), normalizedSeparator)

\* compileMnemonic(words)
compileMnemonic(words) ==
  normalizeMnemonicString(stringsJoin(words, normalizedSeparator))

\* The UTF-8 encoding of one code point below 2^16.
UTF8CodePoint(c) ==
  IF c < 128 THEN <<c>>
  ELSE IF c < 2048 THEN <<192 + (c \div 64), 128 + (c % 64)>>
  ELSE <<224 + (c \div 4096), 128 + ((c \div 64) % 64), 128 + (c % 64)>>

\* []byte(s): the UTF-8 encodings of the code points of s in order, computed
\* half by half.
RECURSIVE UTF8(_)
UTF8(s) ==
  IF Len(s) = 0 THEN <<>>
  ELSE IF Len(s) = 1 THEN UTF8CodePoint(s[1])
  ELSE UTF8(SubSeq(s, 1, Len(s) \div 2))
         \o UTF8(SubSeq(s, (Len(s) \div 2) + 1, Len(s)))

(***************************************************************************)
(* Seed derivation.  pbkdf2.Key is kept as the term of its arguments: the  *)
(* derived key is a function of exactly these, and distinct arguments give *)
(* distinct keys (PBKDF2-HMAC-SHA512 being collision resistant).           *)
(***************************************************************************)
MnemonicSaltPrefix == <<109, 110, 101, 109, 111, 110, 105, 99>>

SeedIterations == 2048

SeedLen == 64

pbkdf2Key(password, salt, iter, keyLen, prf) ==
  [password |-> password, salt |-> salt, iter |-> iter, keyLen |-> keyLen,
   prf |-> prf]

\* seedFromMnemonicString(mnemonicStr, password)
seedFromMnemonicString(mnemonicStr, password) ==
  pbkdf2Key(UTF8(mnemonicStr), UTF8(MnemonicSaltPrefix \o password),
            SeedIterations, SeedLen, "sha512")

(***************************************************************************)
(* crypto/aes and crypto/cipher: AES-256 (FIPS 197) in counter mode.       *)
(***************************************************************************)
AESSBox ==
  <<99, 124, 119, 123, 242, 107, 111, 197, 48, 1, 103, 43, 254, 215, 171, 118,
    202, 130, 201, 125, 250, 89, 71, 240, 173, 212, 162, 175, 156, 164, 114, 192,
    183, 253, 147, 38, 54, 63, 247, 204, 52, 165, 229, 241, 113, 216, 49, 21,
    4, 199, 35, 195, 24, 150, 5, 154, 7, 18, 128, 226, 235, 39, 178, 117,
    9, 131, 44, 26, 27, 110, 90, 160, 82, 59, 214, 179, 41, 227, 47, 132,
    83, 209, 0, 237, 32, 252, 177, 91, 106, 203, 190, 57, 74, 76, 88, 207,
    208, 239, 170, 251, 67, 77, 51, 133, 69, 249, 2, 127, 80, 60, 159, 168,
    81, 163, 64, 143, 146, 157, 56, 245, 188, 182, 218, 33, 16, 255, 243, 210,
    205, 12, 19, 236, 95, 151, 68, 23, 196, 167, 126, 61, 100, 93, 25, 115,
    96, 129, 79, 220, 34, 42, 144, 136, 70, 238, 184, 20, 222, 94, 11, 219,
    224, 50, 58, 10, 73, 6, 36, 92, 194, 211, 172, 98, 145, 149, 228, 121,
    231, 200, 55, 109, 141, 213, 78, 169, 108, 86, 244, 234, 101, 122, 174, 8,
    186, 120, 37, 46, 28, 166, 180, 198, 232, 221, 116, 31, 75, 189, 139, 138,
    112, 62, 181, 102, 72, 3, 246, 14, 97, 53, 87, 185, 134, 193, 29, 158,
    225, 248, 152, 17, 105, 217, 142, 148, 155, 30, 135, 233, 206, 85, 40, 223,
    140, 161, 137, 13, 191, 230, 66, 104, 65, 153, 45, 15, 176, 84, 187, 22>>

AESRcon == <<1, 2, 4, 8, 16, 32, 64>>

\* a + b modulo 256 for byte sequences, in place of XOR.
AddBytes(a, b) ==
  IF Len(a) = 0 THEN <<>>
  ELSE [i \in 1..Len(a) |-> (a[i] + b[i]) % 256] \o <<>>

\* a XOR b for byte sequences, over the length of a.
XorBytes(a, b) ==
  IF Len(a) = 0 THEN <<>>
  ELSE [i \in 1..Len(a) |-> Xor8(a[i], b[i])] \o <<>>

\* The 4-byte word after the i words of the key schedule w.
AESNextWord(w, i, prev) ==
  XorBytes(w[i - 7],
           IF i % 8 = 0
           THEN <<Xor8(AESSBox[prev[2] + 1], AESRcon[i \div 8]),
                  AESSBox[prev[3] + 1], AESSBox[prev[4] + 1],
                  AESSBox[prev[1] + 1]>>
           ELSE IF i % 8 = 4
           THEN <<AESSBox[prev[1] + 1], AESSBox[prev[2] + 1],
                  AESSBox[prev[3] + 1], AESSBox[prev[4] + 1]>>
           ELSE prev)

\* The key schedule w, of 4-byte words, extended by k words: half of them
\* and then the other half.
AESExpandKey[w \in Seq(Seq(0..255)), k \in 0..52] ==
  IF k > 1 THEN AESExpandKey[AESExpandKey[w, k \div 2], k - (k \div 2)]
  ELSE IF k = 1 THEN Append(w, AESNextWord(w, Len(w), w[Len(w)]))
  ELSE w

\* Round key r (0..14) as 16 bytes.
AESRoundKey(w, r) == w[4 * r + 1] \o w[4 * r + 2] \o w[4 * r + 3] \o w[4 * r + 4]

\* Multiplication by x in GF(2^8).
AESXtime(a) == IF 2 * a >= 256 THEN Xor8(2 * a - 256, 27) ELSE 2 * a

\* SubBytes then ShiftRows: byte (row r, column c) is at 4c + r + 1.
AESSubShift(s) ==
  [k \in 1..16 |->
     LET r == (k - 1) % 4
         c == (k - 1) \div 4
     IN  AESSBox[s[4 * ((c + r) % 4) + r + 1] + 1]] \o <<>>

\* MixColumns on the column starting after byte o.
AESMixColumn(s, o) ==
  LET a0 == s[o + 1]
      a1 == s[o + 2]
      a2 == s[o + 3]
      a3 == s[o + 4]
      all == Xor8(Xor8(a0, a1), Xor8(a2, a3))
  IN  <<Xor8(Xor8(a0, all), AESXtime(Xor8(a0, a1))),
        Xor8(Xor8(a1, all), AESXtime(Xor8(a1, a2))),
        Xor8(Xor8(a2, all), AESXtime(Xor8(a2, a3))),
        Xor8(Xor8(a3, all), AESXtime(Xor8(a3, a0)))>>

AESMixColumns(s) ==
  AESMixColumn(s, 0) \o AESMixColumn(s, 4) \o AESMixColumn(s, 8)
    \o AESMixColumn(s, 12)

\* Rounds r..14 on state s.
RECURSIVE AESRounds(_, _, _)
AESRounds(s, w, r) ==
  IF Len(s) # 16 THEN s
  ELSE IF r = 14 THEN XorBytes(AESSubShift(s), AESRoundKey(w, 14))
  ELSE AESRounds(XorBytes(AESMixColumns(AESSubShift(s)), AESRoundKey(w, r)),
                 w, r + 1)

\* The cipher block for a 16-byte block under expanded key w.
AESEncryptBlock(w, block) == AESRounds(XorBytes(block, AESRoundKey(w, 0)), w, 1)

\* aes.NewCipher(key) for a 32-byte key: its expanded key.
aesNewCipher(key) ==
  AESExpandKey[[i \in 1..8 |-> SubSeq(key, 4 * i - 3, 4 * i)] \o <<>>, 52]

\* The counter after one increment (big-endian, wrapping).
RECURSIVE CTRIncrement(_)
CTRIncrement(c) ==
  IF Len(c) = 0 THEN <<>>
  ELSE IF c[Len(c)] < 255 THEN SubSeq(c, 1, Len(c) - 1) \o <<c[Len(c)] + 1>>
  ELSE CTRIncrement(SubSeq(c, 1, Len(c) - 1)) \o <<0>>

\* n bytes of the key stream of cipher.NewCTR(w, counter).
RECURSIVE CTRKeyStream(_, _, _)
CTRKeyStream(w, counter, n) ==
  IF n <= 0 THEN <<>>
  ELSE IF n <= 16 THEN SubSeq(AESEncryptBlock(w, counter), 1, n)
  ELSE AESEncryptBlock(w, counter) \o CTRKeyStream(w, CTRIncrement(counter), n - 16)

(***************************************************************************)
(* EncryptEntropy, in its two key derivations: SHA-256 of the password     *)
(* (encryption.go) and PBKDF2-HMAC-SHA512 with the salt                    *)
(* "mnemonic-encryption", 2048 iterations, 32 bytes (the second            *)
(* definition).  The PBKDF2 keys of the passwords used are known answers.  *)
(***************************************************************************)
Passwords == {<<>>, <<112, 119>>}

KeyDerivations == {"sha256", "pbkdf2"}

MnemonicEncryptionKey(password) ==
  IF password = <<>>
  THEN <<160, 91, 19, 182, 41, 196, 172, 209, 60, 61, 13, 129, 135, 51, 181,
         107, 109, 45, 132, 166, 17, 235, 65, 3, 200, 184, 105, 148, 114, 172,
         222, 158>>
  ELSE <<146, 198, 196, 73, 37, 240, 38, 45, 233, 135, 171, 140, 44, 86, 164,
         163, 137, 13, 43, 136, 148, 35, 126, 142, 159, 243, 90, 161, 98, 97,
         13, 88>>

\* The 256-bit key derived from the password.
pwHash(kdf, password) ==
  IF kdf = "sha256" THEN SHA256Sum(UTF8(password))
  ELSE MnemonicEncryptionKey(password)

\* EncryptEntropy(entropy, password): [out, err]
EncryptEntropy(kdf, entropy, password) ==
  [ci \in Seq(Seq(0..255)) |->
     [out |-> XorBytes(entropy, CTRKeyStream(ci, ZeroBytes(16), Len(entropy))),
      err |-> NoErr]][aesNewCipher(pwHash(kdf, password))]

(***************************************************************************)
(* Mnemonic and its constructors.                                          *)
(***************************************************************************)
\* The nil *Mnemonic.
NilMnemonic ==
  [nil |-> TRUE, entropy |-> <<>>, lang |-> "", str |-> <<>>, words |-> <<>>,
   seed |-> <<>>]

\* &Mnemonic{entropy, lang, str, words, seed}
NewMnemonic(entropy, lang, str, words, seed) ==
  [nil |-> FALSE, entropy |-> entropy, lang |-> lang, str |-> str,
   words |-> words, seed |-> seed]

\* FromEntropy once wordsFromEntropy returned r and the words gave str.
FromEntropyWords(lang, entropy, password, r, str) ==
  IF r.err # NoErr THEN [m |-> NilMnemonic, err |-> r.err]
  ELSE [m |-> NewMnemonic(entropy, lang, str, r.words,
                          seedFromMnemonicString(str, password)),
        err |-> NoErr]

FromEntropyEncoded(lang, entropy, password, r) ==
  FromEntropyWords(lang, entropy, password, r, compileMnemonic(r.words))

\* FromEntropy(lang, entropy, password): [m, err]
FromEntropy(lang, entropy, password) ==
  FromEntropyEncoded(lang, entropy, password, wordsFromEntropy(lang, entropy))

\* FromString once the words were parsed and entropyFromWords returned r.
FromStringDecoded(lang, rawMnemonic, password, words, r) ==
  IF r.err # NoErr THEN [m |-> NilMnemonic, err |-> r.err]
  ELSE [m |-> NewMnemonic(r.entropy, lang, rawMnemonic, words,
                          seedFromMnemonicString(rawMnemonic, password)),
        err |-> NoErr]

FromStringParsed(lang, rawMnemonic, password, words) ==
  FromStringDecoded(lang, rawMnemonic, password, words,
                    entropyFromWords(lang, words))

\* FromString(lang, rawMnemonic, password): [m, err]
FromString(lang, rawMnemonic, password) ==
  FromStringParsed(lang, rawMnemonic, password, parseRawMnemonic(rawMnemonic))

\* entropyFromReader without the comparison of the count read with byteLen.
entropyFromReaderAnyCount(byteLen, rd) ==
  IF rd.err # NoErr THEN [entropy |-> <<>>, err |-> rd.err]
  ELSE [entropy |-> rd.data \o ZeroBytes(byteLen - Len(rd.data)), err |-> NoErr]

\* entropyFromReader(byteLen, rand): rand.Read fills the first Len(rd.data)
\* bytes of the zeroed buffer e and returns (Len(rd.data), rd.err).
entropyFromReader(byteLen, rd) ==
  IF rd.err # NoErr THEN [entropy |-> <<>>, err |-> rd.err]
  ELSE IF Len(rd.data) # byteLen
  THEN [entropy |-> <<>>, err |-> Err("ErrEntropyNotFullyRead")]
  ELSE [entropy |-> rd.data \o ZeroBytes(byteLen - Len(rd.data)), err |-> NoErr]

\* Generate once entropyFromReader returned r.
GenerateRead(lang, password, r) ==
  IF r.err # NoErr THEN [m |-> NilMnemonic, err |-> r.err]
  ELSE FromEntropy(lang, r.entropy, password)

\* Generate(s, lang, password), reading from rd.
Generate(s, lang, password, rd) ==
  GenerateRead(lang, password, entropyFromReader(s.entropyLen, rd))

(***************************************************************************)
(* Inputs.                                                                 *)
(***************************************************************************)
\* Entropy patterns 0..MaxPattern: all zero, all ones, then mixed bytes after
\* k - 2 leading zero bytes.
MaxPattern == 3

\* Byte lengths tried: the five valid ones and lengths around them.
EntropyLens == {12, 15, 16, 17, 20, 24, 28, 32, 33, 36}

ValidEntropyLens == {16, 20, 24, 28, 32}

\* Byte i of pattern k.
PatternByte(k, i) ==
  IF k = 0 THEN 0
  ELSE IF k = 1 THEN 255
  ELSE IF i <= k - 2 THEN 0
  ELSE (i * i * 37 + i * 11 + k * 101) % 256

\* Bytes i..n of pattern k.
PatternBytes(k, i, n) ==
  IF i > n THEN <<>>
  ELSE [j \in 1..(n - i + 1) |-> PatternByte(k, i + j - 1)] \o <<>>

EntropySamples ==
  {PatternBytes(k, 1, n) : k \in 0..MaxPattern, n \in EntropyLens}

\* Masks XORed into the checksum bits of the last word: every mask up to
\* MaxTamperMask, every single bit, and all checksum bits at once.
MaxTamperMask == 3

TamperMasks(checksumBitLen) ==
  {d \in 1..(Pow2[checksumBitLen + 1] - 1) :
     \/ d <= MaxTamperMask
     \/ d = Pow2[checksumBitLen + 1] - 1
     \/ \E b \in 0..(checksumBitLen - 1) : d = Pow2[b + 1]}

\* Indices of the word appended to a word sequence.
MaxExtraIndex == 15

\* How many words are appended or dropped.
MaxResize == 3

\* The last word of words with mask d XORed into its index.
TamperLastWord(lang, words, d) ==
  LET n == Len(words)
      index == LookupWord(lang, words[n]).index
  IN  [words EXCEPT ![n] = WordAt(lang, Xor16[index, d])]

\* Words that are in no list: the empty word, the first word with a symbol
\* more, and a word of other letters.
UnknownWords(lang) ==
  {<<>>, WordAt(lang, 0) \o DigitSym(lang, 1), <<122, 122, 122>>}

\* words with k words appended (k > 0) or with its last -k words dropped.
ResizeWords(lang, words, k) ==
  IF k >= 0 THEN words \o [j \in 1..k |-> WordAt(lang, 0)]
  ELSE SubSeq(words, 1, Len(words) + k)

(***************************************************************************)
(* The codec under a caller that encodes an entropy and then decodes the   *)
(* words, as they are, with checksum bits changed, with words appended or  *)
(* dropped, or with words replaced by words that are in no list.           *)
(***************************************************************************)
VARIABLES
  codec,   \* a caller of wordsFromEntropy and entropyFromWords
  api,     \* a caller of FromEntropy and FromString
  gen,     \* a caller of Generate
  cipher,  \* a caller of EncryptEntropy
  heap,    \* the big.Int values of the package and of the running calls
  procs,   \* the calls running concurrently
  mem,     \* the backing arrays of the slices a caller and a Mnemonic hold
  text     \* a caller of parseRawMnemonic and compileMnemonic

vars == <<codec, api, gen, cipher, heap, procs, mem, text>>

NoWords == [words |-> <<>>, err |-> NoErr]

NoEntropy == [entropy |-> <<>>, err |-> NoErr]

NoMnemonic == [m |-> NilMnemonic, err |-> NoErr]

\* The value of a variable under a specification that leaves it alone.
Idle == [pc |-> "idle"]

CodecInit ==
  /\ codec \in {[pc |-> "start", lang |-> l, entropy |-> e, enc |-> NoWords,
                 how |-> "none", given |-> <<>>, dec |-> NoEntropy] :
                  l \in Languages, e \in EntropySamples}
  /\ api = Idle
  /\ gen = Idle
  /\ cipher = Idle
  /\ heap = Idle
  /\ procs = Idle
  /\ mem = Idle
  /\ text = Idle

Encode ==
  /\ codec.pc = "start"
  /\ codec' = [codec EXCEPT !.pc = "encoded",
                            !.enc = wordsFromEntropy(codec.lang, codec.entropy)]
  /\ UNCHANGED <<api, gen, cipher, heap, procs, mem, text>>

DecodeGiven(how, words) ==
  /\ codec' = [codec EXCEPT !.pc = "decoded", !.how = how, !.given = words,
                            !.dec = entropyFromWords(codec.lang, words)]
  /\ UNCHANGED <<api, gen, cipher, heap, procs, mem, text>>

Decode ==
  /\ codec.pc = "encoded"
  /\ codec.enc.err = NoErr
  /\ DecodeGiven("asis", codec.enc.words)

DecodeTampered ==
  /\ codec.pc = "encoded"
  /\ codec.enc.err = NoErr
  /\ \E d \in TamperMasks(sizes[sizeParamsFromEntropyLen(Len(codec.entropy)).sizeType + 1].checksumBitLen) :
       DecodeGiven("tampered", TamperLastWord(codec.lang, codec.enc.words, d))

DecodeGrown ==
  /\ codec.pc = "encoded"
  /\ codec.enc.err = NoErr
  /\ \E k \in 1..MaxResize, x \in 0..MaxExtraIndex :
       /\ k > 1 => x = 0
       /\ DecodeGiven("grown",
                      codec.enc.words \o [j \in 1..k |-> WordAt(codec.lang, x)])

DecodeShrunk ==
  /\ codec.pc = "encoded"
  /\ codec.enc.err = NoErr
  /\ \E k \in 1..MaxResize :
       DecodeGiven("shrunk", SubSeq(codec.enc.words, 1, Len(codec.enc.words) - k))

\* Words i and j of the words, resized or not, are replaced by unknown words.
DecodeUnknown ==
  /\ codec.pc = "encoded"
  /\ codec.enc.err = NoErr
  /\ \E k \in (-MaxResize)..MaxResize :
       \E base \in {ResizeWords(codec.lang, codec.enc.words, k)} :
         \E i \in {1, 2, Len(base)}, j \in {1, 2, Len(base)},
            u \in UnknownWords(codec.lang), v \in UnknownWords(codec.lang) :
           /\ i <= j
           /\ i = j => u = v
           /\ i < j => u # v
           /\ DecodeGiven("unknown", [base EXCEPT ![i] = u, ![j] = v])

Next ==
  \/ Encode \/ Decode \/ DecodeTampered \/ DecodeGrown \/ DecodeShrunk
  \/ DecodeUnknown

Init == CodecInit

Spec == Init /\ [][Next]_vars

(***************************************************************************)
(* The Mnemonic type under a caller that constructs a Mnemonic from an     *)
(* entropy or from a mnemonic string written in some form, and then        *)
(* constructs a second one from the same mnemonic written in another form  *)
(* or from the entropy of the first.                                       *)
(***************************************************************************)
\* (m Mnemonic) Entropy()
Entropy(m) == m.entropy

\* (m *Mnemonic) String()
String(m) == m.str

\* (m *Mnemonic) Words()
Words(m) == m.words

\* (m Mnemonic) Seed()
Seed(m) == m.seed

\* Entropies given to FromEntropy and encoded for FromString.
MnemonicEntropyLens == {16, 32}

MnemonicSamples ==
  {PatternBytes(k, 1, n) : k \in 0..MaxPattern, n \in MnemonicEntropyLens}

\* s with every code point from replaced by to.
ReplaceCodePoint(s, from, to) ==
  [i \in 1..Len(s) |-> IF s[i] = from THEN to ELSE s[i]] \o <<>>

\* s with every KA followed by the combining voiced sound mark written as the
\* single code point GA (the composed form of the same text).
RECURSIVE ComposeKana(_)
ComposeKana(s) ==
  IF Len(s) <= 2
  THEN IF s = <<KanaKA, KanaVoicedMark>> THEN <<KanaGA>> ELSE s
  ELSE LET half == Len(s) \div 2
           cut  == IF s[half + 1] = KanaVoicedMark THEN half + 1 ELSE half
       IN  ComposeKana(SubSeq(s, 1, cut))
             \o ComposeKana(SubSeq(s, cut + 1, Len(s)))

\* The forms a caller writes a mnemonic string in.
StringForms == {"normalized", "ideographic", "composed", "tampered"}

\* The normalized mnemonic string str written in a form: as it is, with
\* ideographic spaces (U+3000) between the words, with composed kana, or with
\* the last symbol of the last word replaced by the symbol of another digit.
WriteForm(lang, form, str) ==
  IF form = "ideographic" THEN ReplaceCodePoint(str, 32, IdeographicSpace)
  ELSE IF form = "composed" THEN ComposeKana(str)
  ELSE IF form = "tampered"
  THEN SubSeq(str, 1, Len(str) - 1)
         \o (IF str[Len(str)] = DigitSym(lang, 1)[1] THEN DigitSym(lang, 2)
             ELSE DigitSym(lang, 1))
  ELSE str

\* The mnemonic string of an entropy, written in a form.
MnemonicStringOf(lang, form, r) == WriteForm(lang, form, compileMnemonic(r.words))

ApiInit ==
  /\ api = [pc |-> "start", by |-> "none", lang |-> "", password |-> <<>>,
            raw |-> <<>>, res |-> NoMnemonic,
            by2 |-> "none", raw2 |-> <<>>, res2 |-> NoMnemonic]
  /\ codec = Idle
  /\ gen = Idle
  /\ cipher = Idle
  /\ heap = Idle
  /\ procs = Idle
  /\ mem = Idle
  /\ text = Idle

CallFromEntropy ==
  /\ api.pc = "start"
  /\ \E lang \in Languages, entropy \in MnemonicSamples, password \in Passwords :
       api' = [api EXCEPT !.pc = "built", !.by = "FromEntropy", !.lang = lang,
                          !.password = password,
                          !.res = FromEntropy(lang, entropy, password)]
  /\ UNCHANGED <<codec, gen, cipher, heap, procs, mem, text>>

CallFromStringGiven(lang, rawMnemonic, password) ==
  api' = [api EXCEPT !.pc = "built", !.by = "FromString", !.lang = lang,
                     !.password = password, !.raw = rawMnemonic,
                     !.res = FromString(lang, rawMnemonic, password)]

CallFromString ==
  /\ api.pc = "start"
  /\ \E lang \in Languages, entropy \in MnemonicSamples, password \in Passwords,
        form \in StringForms :
       \E r \in {wordsFromEntropy(lang, entropy)} :
         \E rawMnemonic \in {MnemonicStringOf(lang, form, r)} :
           CallFromStringGiven(lang, rawMnemonic, password)
  /\ UNCHANGED <<codec, gen, cipher, heap, procs, mem, text>>

CallFromStringAgainGiven(rawMnemonic) ==
  api' = [api EXCEPT !.pc = "rebuilt", !.by2 = "FromString",
                     !.raw2 = rawMnemonic,
                     !.res2 = FromString(api.lang, rawMnemonic, api.password)]

\* The same mnemonic, written in another form, is given to FromString.
CallFromStringAgain ==
  /\ api.pc = "built"
  /\ api.by = "FromString"
  /\ api.res.err = NoErr
  /\ \E form \in StringForms \ {"tampered"} :
       CallFromStringAgainGiven(
         WriteForm(api.lang, form, normalizeMnemonicString(api.raw)))
  /\ UNCHANGED <<codec, gen, cipher, heap, procs, mem, text>>

\* The entropy of the Mnemonic FromString returned is given to FromEntropy.
CallFromEntropyAgain ==
  /\ api.pc = "built"
  /\ api.by = "FromString"
  /\ api.res.err = NoErr
  /\ api' = [api EXCEPT !.pc = "rebuilt", !.by2 = "FromEntropy",
                        !.res2 = FromEntropy(api.lang, Entropy(api.res.m),
                                             api.password)]
  /\ UNCHANGED <<codec, gen, cipher, heap, procs, mem, text>>

NextMnemonic ==
  CallFromEntropy \/ CallFromString \/ CallFromStringAgain \/ CallFromEntropyAgain

SpecMnemonic == ApiInit /\ [][NextMnemonic]_vars

(***************************************************************************)
(* Generate under a caller, with a randomness source whose Read writes the *)
(* bytes rd.data and returns (Len(rd.data), rd.err).                       *)
(***************************************************************************)
\* What Read returns: nothing, one byte, one byte less than asked, or all the
\* bytes asked, with or without an error.
ReadLens(byteLen) == {0, 1, byteLen - 1, byteLen}

ReadErrs == {NoErr, Err("ErrReadFailed")}

ReadOutcomes(byteLen) ==
  {[data |-> PatternBytes(k, 1, n), err |-> e] :
     k \in 0..MaxPattern, n \in ReadLens(byteLen), e \in ReadErrs}

GenInit ==
  /\ gen = [pc |-> "start", size |-> 0, lang |-> "", password |-> <<>>,
            rd |-> [data |-> <<>>, err |-> NoErr], res |-> NoMnemonic]
  /\ codec = Idle
  /\ api = Idle
  /\ cipher = Idle
  /\ heap = Idle
  /\ procs = Idle
  /\ mem = Idle
  /\ text = Idle

CallGenerateGiven(size, lang, password, rd) ==
  gen' = [pc |-> "done", size |-> size, lang |-> lang, password |-> password,
          rd |-> rd, res |-> Generate(sizes[size], lang, password, rd)]

CallGenerate ==
  /\ gen.pc = "start"
  /\ \E size \in 1..Len(sizes), lang \in Languages, password \in Passwords :
       \E rd \in ReadOutcomes(sizes[size].entropyLen) :
         CallGenerateGiven(size, lang, password, rd)
  /\ UNCHANGED <<codec, api, cipher, heap, procs, mem, text>>

NextGenerate == CallGenerate

SpecGenerate == GenInit /\ [][NextGenerate]_vars

(***************************************************************************)
(* EncryptEntropy under a caller that encrypts a byte sequence and then    *)
(* encrypts the output again with the same password.                       *)
(***************************************************************************)
CipherLens == {0, 1, 16, 17, 32, 33}

CipherSamples ==
  {PatternBytes(k, 1, n) : k \in 0..MaxPattern, n \in CipherLens}

CipherInit ==
  /\ cipher = [pc |-> "start", kdf |-> "", password |-> <<>>,
               entropy |-> <<>>, out |-> NoEntropy, back |-> NoEntropy]
  /\ codec = Idle
  /\ api = Idle
  /\ gen = Idle
  /\ heap = Idle
  /\ procs = Idle
  /\ mem = Idle
  /\ text = Idle

\* The [out, err] of EncryptEntropy as a record like the codec's results.
Encrypted(r) == [entropy |-> r.out, err |-> r.err]

Encrypt ==
  /\ cipher.pc = "start"
  /\ \E kdf \in KeyDerivations, password \in Passwords, entropy \in CipherSamples :
       cipher' = [cipher EXCEPT
                    !.pc = "encrypted", !.kdf = kdf, !.password = password,
                    !.entropy = entropy,
                    !.out = Encrypted(EncryptEntropy(kdf, entropy, password))]
  /\ UNCHANGED <<codec, api, gen, heap, procs, mem, text>>

EncryptAgain ==
  /\ cipher.pc = "encrypted"
  /\ cipher.out.err = NoErr
  /\ cipher' = [cipher EXCEPT
                  !.pc = "decrypted",
                  !.back = Encrypted(EncryptEntropy(cipher.kdf, cipher.out.entropy,
                                                    cipher.password))]
  /\ UNCHANGED <<codec, api, gen, heap, procs, mem, text>>

NextCipher == Encrypt \/ EncryptAgain

SpecCipher == CipherInit /\ [][NextCipher]_vars

(***************************************************************************)
(* Concurrent calls.  The big.Int values live in a heap: the package's     *)
(* variables and the sizes table hold pointers to theirs, and every call   *)
(* allocates its own.  A big.Int method writes its receiver z and reads    *)
(* its operands x and y; a call takes one step per method call, so that    *)
(* the steps of concurrent calls interleave.                               *)
(***************************************************************************)
Procs == {1, 2}

\* The address of a big.Int: the owner (0 for the package), the variable or
\* field that points to it, and the sizes entry (0 outside the table).
Addr(owner, name, size) == <<owner, name, size>>

GlobalAddrs ==
  {Addr(0, n, 0) : n \in {"bigOne", "bigTwo", "wordANDMask", "wordShiftOperand"}}
    \cup {Addr(0, n, k) : k \in 1..Len(sizes),
                             n \in {"checksumANDMask", "checksumShiftOperand"}}

LocalAddrs ==
  {Addr(p, n, 0) : p \in Procs,
                 n \in {"entropy", "entropyInt", "wordInt", "entropyAndChecksum",
                        "index", "givenChecksum", "rawEntropy"}}

\* The heap once the package's variables are initialized.
PackageHeap ==
  [a \in GlobalAddrs \cup LocalAddrs |->
     IF a[1] # 0 THEN BigNewInt(0)
     ELSE IF a[2] = "bigOne" THEN bigOne
     ELSE IF a[2] = "bigTwo" THEN bigTwo
     ELSE IF a[2] = "wordANDMask" THEN wordANDMask
     ELSE IF a[2] = "wordShiftOperand" THEN wordShiftOperand
     ELSE IF a[2] = "checksumANDMask" THEN sizes[a[3]].checksumANDMask
     ELSE sizes[a[3]].checksumShiftOperand]

\* z.SetBytes(buf), also new(big.Int).SetBytes(buf)
BigIntSetBytes(h, z, buf) == [h EXCEPT ![z] = BigSetBytes(buf)]

\* z = big.NewInt(n)
BigIntNewInt(h, z, n) == [h EXCEPT ![z] = BigNewInt(n)]

\* z.And(x, y)
BigIntAnd(h, z, x, y) == [h EXCEPT ![z] = BigAnd(h[x], h[y])]

\* z.Or(x, y)
BigIntOr(h, z, x, y) == [h EXCEPT ![z] = BigOr(h[x], h[y])]

\* z.Mul(x, y)
BigIntMul(h, z, x, y) == [h EXCEPT ![z] = BigMul(h[x], h[y])]

\* z.Div(x, y) writing the quotient into the operand y.
BigIntDivIntoOperand(h, z, x, y) == [h EXCEPT ![y] = BigDiv(h[x], h[y])]

\* z.Div(x, y)
BigIntDiv(h, z, x, y) == [h EXCEPT ![z] = BigDiv(h[x], h[y])]

\* A call: the function called and its arguments.
NewCall(op, lang, entropy, words, str, password) ==
  [op |-> op, lang |-> lang, entropy |-> entropy, words |-> words,
   str |-> str, password |-> password]

\* The calls that run concurrently: an encode, a decode of a valid mnemonic,
\* a decode of one with a changed checksum, a seed derivation, an encryption.
ConcCalls ==
  { NewCall("wordsFromEntropy", "latin", PatternBytes(2, 1, 16), <<>>, <<>>, <<>>),
    NewCall("entropyFromWords", "kana", <<>>,
            wordsFromEntropy("kana", PatternBytes(3, 1, 20)).words, <<>>, <<>>),
    NewCall("entropyFromWords", "latin", <<>>,
            TamperLastWord("latin",
                           wordsFromEntropy("latin", PatternBytes(1, 1, 16)).words,
                           1),
            <<>>, <<>>),
    NewCall("seedFromMnemonicString", "", <<>>, <<>>, <<97, 32, 98>>, <<112, 119>>),
    NewCall("EncryptEntropy", "", PatternBytes(2, 1, 17), <<>>, <<>>, <<112, 119>>) }

\* A call about to start: its position, loop index, sizes entry, checksum
\* byte, word index, words so far and result.
NewProc(call) ==
  [call |-> call, pc |-> "call", i |-> 0, size |-> 0, cs |-> 0, index |-> 0,
   words |-> <<>>, res |-> [val |-> <<>>, err |-> NoErr]]

ConcInit ==
  /\ procs \in [Procs -> {NewProc(c) : c \in ConcCalls}]
  /\ heap = PackageHeap
  /\ codec = Idle
  /\ api = Idle
  /\ gen = Idle
  /\ cipher = Idle
  /\ mem = Idle
  /\ text = Idle

Running(p, op, pc) == procs[p].call.op = op /\ procs[p].pc = pc

Return(p, val, err) ==
  procs' = [procs EXCEPT ![p].pc = "done", ![p].res = [val |-> val, err |-> err]]

\* wordsFromEntropy: the size lookup, then addChecksum up to its loop.
WordsFromEntropyCall(p) ==
  /\ Running(p, "wordsFromEntropy", "call")
  /\ LET sp == sizeParamsFromEntropyLen(Len(procs[p].call.entropy))
     IN  IF sp.err # NoErr
         THEN Return(p, <<>>, sp.err) /\ UNCHANGED heap
         ELSE /\ procs' = [procs EXCEPT
                             ![p].pc = "addChecksumMul",
                             ![p].size = sp.sizeType + 1,
                             ![p].cs = firstSHA256Byte(procs[p].call.entropy),
                             ![p].i = 0]
              /\ heap' = BigIntSetBytes(heap, Addr(p, "entropy", 0),
                                        procs[p].call.entropy)
  /\ UNCHANGED <<codec, api, gen, cipher, mem, text>>

\* addChecksum: entropy.Mul(entropy, bigTwo)
AddChecksumMul(p) ==
  /\ Running(p, "wordsFromEntropy", "addChecksumMul")
  /\ procs[p].i < sizes[procs[p].size].checksumBitLen
  /\ heap' = BigIntMul(heap, Addr(p, "entropy", 0), Addr(p, "entropy", 0),
                       Addr(0, "bigTwo", 0))
  /\ procs' = IF And8(procs[p].cs, Pow2[8 - procs[p].i]) > 0
              THEN [procs EXCEPT ![p].pc = "addChecksumOr"]
              ELSE [procs EXCEPT ![p].i = @ + 1]
  /\ UNCHANGED <<codec, api, gen, cipher, mem, text>>

\* addChecksum: entropy.Or(entropy, bigOne)
AddChecksumOr(p) ==
  /\ Running(p, "wordsFromEntropy", "addChecksumOr")
  /\ heap' = BigIntOr(heap, Addr(p, "entropy", 0), Addr(p, "entropy", 0),
                      Addr(0, "bigOne", 0))
  /\ procs' = [procs EXCEPT ![p].pc = "addChecksumMul", ![p].i = @ + 1]
  /\ UNCHANGED <<codec, api, gen, cipher, mem, text>>

\* addChecksum returns; wordsFromEntropy makes entropyInt, wordInt and words.
AddChecksumReturn(p) ==
  /\ Running(p, "wordsFromEntropy", "addChecksumMul")
  /\ procs[p].i >= sizes[procs[p].size].checksumBitLen
  /\ heap' = BigIntNewInt(
               BigIntSetBytes(
                 heap, Addr(p, "entropyInt", 0),
                 padByteSlice(BigBytes(heap[Addr(p, "entropy", 0)]),
                              sizes[procs[p].size].entropyLen + 1)),
               Addr(p, "wordInt", 0), 0)
  /\ procs' = [procs EXCEPT
                 ![p].pc = "wordAnd",
                 ![p].i = sizes[procs[p].size].wordLen - 1,
                 ![p].words = [j \in 1..sizes[procs[p].size].wordLen |-> <<>>]]
  /\ UNCHANGED <<codec, api, gen, cipher, mem, text>>

\* wordsFromEntropy: wordInt.And(entropyInt, wordANDMask)
WordsFromEntropyAnd(p) ==
  /\ Running(p, "wordsFromEntropy", "wordAnd")
  /\ procs[p].i >= 0
  /\ heap' = BigIntAnd(heap, Addr(p, "wordInt", 0), Addr(p, "entropyInt", 0),
                       Addr(0, "wordANDMask", 0))
  /\ procs' = [procs EXCEPT ![p].pc = "wordDiv"]
  /\ UNCHANGED <<codec, api, gen, cipher, mem, text>>

\* wordsFromEntropy: entropyInt.Div(entropyInt, wordShiftOperand), then
\* words[i] is set from wordInt.
WordsFromEntropyDiv(p) ==
  /\ Running(p, "wordsFromEntropy", "wordDiv")
  /\ heap' = BigIntDiv(heap, Addr(p, "entropyInt", 0), Addr(p, "entropyInt", 0),
                       Addr(0, "wordShiftOperand", 0))
  /\ procs' = [procs EXCEPT
                 ![p].pc = "wordAnd",
                 ![p].words[procs[p].i + 1] =
                   WordAt(procs[p].call.lang,
                          Uint16(padByteSlice(
                                   BigBytes(heap'[Addr(p, "wordInt", 0)]), 2))),
                 ![p].i = @ - 1]
  /\ UNCHANGED <<codec, api, gen, cipher, mem, text>>

WordsFromEntropyReturn(p) ==
  /\ Running(p, "wordsFromEntropy", "wordAnd")
  /\ procs[p].i < 0
  /\ Return(p, procs[p].words, NoErr)
  /\ UNCHANGED <<heap, codec, api, gen, cipher, mem, text>>

\* entropyFromWords: the size lookup and entropyAndChecksum := big.NewInt(0)
EntropyFromWordsCall(p) ==
  /\ Running(p, "entropyFromWords", "call")
  /\ LET sp == sizeParamsFromWordSetLen(Len(procs[p].call.words))
     IN  IF sp.err # NoErr
         THEN Return(p, <<>>, sp.err) /\ UNCHANGED heap
         ELSE /\ procs' = [procs EXCEPT ![p].pc = "lookup",
                                        ![p].size = sp.sizeType + 1,
                                        ![p].i = 1]
              /\ heap' = BigIntNewInt(heap, Addr(p, "entropyAndChecksum", 0), 0)
  /\ UNCHANGED <<codec, api, gen, cipher, mem, text>>

\* entropyFromWords: the lookup of word i, then
\* entropyAndChecksum.Mul(entropyAndChecksum, wordShiftOperand)
EntropyFromWordsLookup(p) ==
  /\ Running(p, "entropyFromWords", "lookup")
  /\ procs[p].i <= Len(procs[p].call.words)
  /\ LET f == LookupWord(procs[p].call.lang, procs[p].call.words[procs[p].i])
     IN  IF ~f.found
         THEN /\ Return(p, <<>>, ErrUnknownWord(procs[p].call.words[procs[p].i]))
              /\ UNCHANGED heap
         ELSE /\ heap' = BigIntMul(heap, Addr(p, "entropyAndChecksum", 0),
                                   Addr(p, "entropyAndChecksum", 0),
                                   Addr(0, "wordShiftOperand", 0))
              /\ procs' = [procs EXCEPT ![p].pc = "wordOr", ![p].index = f.index]
  /\ UNCHANGED <<codec, api, gen, cipher, mem, text>>

\* entropyFromWords: .Or(entropyAndChecksum, big.NewInt(int64(index)))
EntropyFromWordsOr(p) ==
  /\ Running(p, "entropyFromWords", "wordOr")
  /\ heap' = BigIntOr(BigIntNewInt(heap, Addr(p, "index", 0), procs[p].index),
                      Addr(p, "entropyAndChecksum", 0),
                      Addr(p, "entropyAndChecksum", 0), Addr(p, "index", 0))
  /\ procs' = [procs EXCEPT ![p].pc = "lookup", ![p].i = @ + 1]
  /\ UNCHANGED <<codec, api, gen, cipher, mem, text>>

\* entropyFromWords: big.NewInt(0).And(entropyAndChecksum,
\* sizeType.checksumANDMask)
EntropyFromWordsSplitAnd(p) ==
  /\ Running(p, "entropyFromWords", "lookup")
  /\ procs[p].i > Len(procs[p].call.words)
  /\ heap' = BigIntAnd(heap, Addr(p, "givenChecksum", 0),
                       Addr(p, "entropyAndChecksum", 0),
                       Addr(0, "checksumANDMask", procs[p].size))
  /\ procs' = [procs EXCEPT ![p].pc = "splitDiv"]
  /\ UNCHANGED <<codec, api, gen, cipher, mem, text>>

\* entropyFromWords: big.NewInt(0).Div(entropyAndChecksum,
\* sizeType.checksumShiftOperand)
EntropyFromWordsSplitDiv(p) ==
  /\ Running(p, "entropyFromWords", "splitDiv")
  /\ heap' = BigIntDiv(heap, Addr(p, "rawEntropy", 0),
                       Addr(p, "entropyAndChecksum", 0),
                       Addr(0, "checksumShiftOperand", procs[p].size))
  /\ procs' = [procs EXCEPT ![p].pc = "verify"]
  /\ UNCHANGED <<codec, api, gen, cipher, mem, text>>

\* entropyFromWords: the checksum is computed and compared.
EntropyFromWordsReturn(p) ==
  /\ Running(p, "entropyFromWords", "verify")
  /\ LET r == entropyFromWordsVerify(
                sizes[procs[p].size], heap[Addr(p, "givenChecksum", 0)],
                padByteSlice(BigBytes(heap[Addr(p, "rawEntropy", 0)]),
                             sizes[procs[p].size].entropyLen))
     IN  Return(p, r.entropy, r.err)
  /\ UNCHANGED <<heap, codec, api, gen, cipher, mem, text>>

\* seedFromMnemonicString allocates all it writes.
SeedFromMnemonicStringCall(p) ==
  /\ Running(p, "seedFromMnemonicString", "call")
  /\ Return(p, seedFromMnemonicString(procs[p].call.str, procs[p].call.password),
            NoErr)
  /\ UNCHANGED <<heap, codec, api, gen, cipher, mem, text>>

\* EncryptEntropy allocates all it writes.
EncryptEntropyCall(p) ==
  /\ Running(p, "EncryptEntropy", "call")
  /\ LET r == EncryptEntropy("sha256", procs[p].call.entropy,
                             procs[p].call.password)
     IN  Return(p, r.out, r.err)
  /\ UNCHANGED <<heap, codec, api, gen, cipher, mem, text>>

NextConc ==
  \E p \in Procs :
    \/ WordsFromEntropyCall(p)
    \/ AddChecksumMul(p)
    \/ AddChecksumOr(p)
    \/ AddChecksumReturn(p)
    \/ WordsFromEntropyAnd(p)
    \/ WordsFromEntropyDiv(p)
    \/ WordsFromEntropyReturn(p)
    \/ EntropyFromWordsCall(p)
    \/ EntropyFromWordsLookup(p)
    \/ EntropyFromWordsOr(p)
    \/ EntropyFromWordsSplitAnd(p)
    \/ EntropyFromWordsSplitDiv(p)
    \/ EntropyFromWordsReturn(p)
    \/ SeedFromMnemonicStringCall(p)
    \/ EncryptEntropyCall(p)

SpecConc == ConcInit /\ [][NextConc]_vars

\* What a call returns when it runs alone.
Alone(call) ==
  IF call.op = "wordsFromEntropy"
  THEN LET r == wordsFromEntropy(call.lang, call.entropy)
       IN  [val |-> r.words, err |-> r.err]
  ELSE IF call.op = "entropyFromWords"
  THEN LET r == entropyFromWords(call.lang, call.words)
       IN  [val |-> r.entropy, err |-> r.err]
  ELSE IF call.op = "seedFromMnemonicString"
  THEN [val |-> seedFromMnemonicString(call.str, call.password), err |-> NoErr]
  ELSE LET r == EncryptEntropy("sha256", call.entropy, call.password)
       IN  [val |-> r.out, err |-> r.err]

(***************************************************************************)
(* The bit-stream reading of the format, used to state the claims: bits    *)
(* are taken most significant first.                                       *)
(***************************************************************************)
ValidWordCounts == {12, 15, 18, 21, 24}

\* The n low bits of v, most significant first, n <= 16.
BitsOf(v, n) ==
  IF n = 0 THEN <<>> ELSE [i \in 1..n |-> (v \div Pow2[n - i + 1]) % 2] \o <<>>

\* The bits of a byte sequence.
RECURSIVE BytesBits(_)
BytesBits(b) ==
  IF Len(b) = 0 THEN <<>>
  ELSE IF Len(b) = 1 THEN BitsOf(b[1], 8)
  ELSE BytesBits(SubSeq(b, 1, Len(b) \div 2))
         \o BytesBits(SubSeq(b, (Len(b) \div 2) + 1, Len(b)))

\* The number a bit sequence of at most 16 bits spells.
RECURSIVE BitsValue(_)
BitsValue(bits) ==
  IF Len(bits) = 0 THEN 0
  ELSE IF Len(bits) = 1 THEN bits[1]
  ELSE BitsValue(SubSeq(bits, 1, Len(bits) \div 2))
           * Pow2[Len(bits) - (Len(bits) \div 2) + 1]
         + BitsValue(SubSeq(bits, (Len(bits) \div 2) + 1, Len(bits)))

\* The bytes a bit sequence of 8n bits spells.
BitsBytes(bits) ==
  IF Len(bits) = 0 THEN <<>>
  ELSE [i \in 1..(Len(bits) \div 8) |->
          BitsValue(SubSeq(bits, 8 * i - 7, 8 * i))] \o <<>>

\* The top n bits of the first byte of SHA-256(data).
ChecksumBits(data, n) == SubSeq(BitsOf(SHA256Sum(data)[1], 8), 1, n)

\* The entropy bits followed by the checksum bits, for entropy of a valid length.
RefStream(entropy) ==
  BytesBits(entropy) \o ChecksumBits(entropy, Len(entropy) \div 4)

\* The words of the 11-bit groups of a bit stream, first group first.
RefWords(lang, stream) ==
  [i \in 1..(Len(stream) \div 11) |->
     WordAt(lang, BitsValue(SubSeq(stream, 11 * i - 10, 11 * i)))]

\* The 11-bit indices of known words, concatenated.
RECURSIVE WordsBits(_, _)
WordsBits(lang, words) ==
  IF Len(words) = 0 THEN <<>>
  ELSE IF Len(words) = 1 THEN BitsOf(LookupWord(lang, words[1]).index, 11)
  ELSE WordsBits(lang, SubSeq(words, 1, Len(words) \div 2))
         \o WordsBits(lang, SubSeq(words, (Len(words) \div 2) + 1, Len(words)))

\* Whether the trailing checksum bits of a stream of 33n bits are those of
\* its leading 32n bits.
RefChecksumMatches(stream) ==
  LET cs == Len(stream) \div 33
      raw == SubSeq(stream, 1, 32 * cs)
  IN  SubSeq(stream, 32 * cs + 1, 33 * cs) = ChecksumBits(BitsBytes(raw), cs)

AllWordsKnown(lang, words) ==
  \A i \in 1..Len(words) : LookupWord(lang, words[i]).found

(***************************************************************************)
(* Slices shared with the caller.  A Go slice points into a backing array: *)
(* passing, storing or returning a slice copies the pointer, never the     *)
(* array.  mem.arrays holds the backing arrays and a slice is the number   *)
(* of the array it covers (0 is the nil slice).  A Mnemonic in memory has  *)
(* the slices of its entropy, words and seed, and the value of its string  *)
(* (a Go string cannot be written to).  The bytes of a derived key are not *)
(* computed, so the array of a seed is the key and the mask XORed into its *)
(* bytes since.  The caller holds the slice it passed to FromEntropy and   *)
(* the slices the accessors returned, and writes to their elements.        *)
(***************************************************************************)
\* The array pbkdf2.Key returns.
KeyArray(key) == [key |-> key, mask |-> ZeroBytes(key.keyLen)]

\* The bytes of the array of a seed, as a value: the key while no byte of it
\* was changed.
KeyValue(a) == IF a.mask = ZeroBytes(a.key.keyLen) THEN a.key ELSE a

\* FromEntropy(lang, entropy, password) with entropy a slice: the Mnemonic
\* keeps the slice it was given, and has new arrays for its words and seed.
FromEntropyAt(arrays, lang, entropy, password) ==
  [r \in {FromEntropy(lang, arrays[entropy], password)} |->
     IF r.err # NoErr THEN [arrays |-> arrays, m |-> NilMnemonic, err |-> r.err]
     ELSE [arrays |-> arrays \o <<Words(r.m), KeyArray(Seed(r.m))>>,
           m |-> NewMnemonic(entropy, lang, String(r.m),
                             Len(arrays) + 1, Len(arrays) + 2),
           err |-> NoErr]
  ][FromEntropy(lang, arrays[entropy], password)]

\* FromString(lang, rawMnemonic, password): the entropy (from big.Int.Bytes or
\* padByteSlice), the words (from strings.Split) and the seed are new arrays.
FromStringAt(arrays, lang, rawMnemonic, password) ==
  [r \in {FromString(lang, rawMnemonic, password)} |->
     IF r.err # NoErr THEN [arrays |-> arrays, m |-> NilMnemonic, err |-> r.err]
     ELSE [arrays |-> arrays \o <<Entropy(r.m), Words(r.m), KeyArray(Seed(r.m))>>,
           m |-> NewMnemonic(Len(arrays) + 1, lang, String(r.m),
                             Len(arrays) + 2, Len(arrays) + 3),
           err |-> NoErr]
  ][FromString(lang, rawMnemonic, password)]

\* What the accessors of m give, read through the slices they return.
ViewsOf(arrays, m) ==
  [entropy |-> arrays[Entropy(m)], words |-> arrays[Words(m)],
   str |-> String(m), seed |-> KeyValue(arrays[Seed(m)])]

\* The first and the last element of a slice of n elements.
WriteIndices(n) == {1, n}

AliasInit ==
  /\ mem = [pc |-> "start", arrays |-> <<>>, m |-> NilMnemonic, built |-> <<>>,
            arg |-> 0, entropy |-> 0, words |-> 0, seed |-> 0]
  /\ codec = Idle
  /\ api = Idle
  /\ gen = Idle
  /\ cipher = Idle
  /\ heap = Idle
  /\ procs = Idle
  /\ text = Idle

Built(r, arg) ==
  /\ r.err = NoErr
  /\ mem' = [mem EXCEPT !.pc = "built", !.arrays = r.arrays, !.m = r.m,
                        !.built = ViewsOf(r.arrays, r.m), !.arg = arg]
  /\ UNCHANGED <<codec, api, gen, cipher, heap, procs, text>>

\* The caller makes a slice of entropy and passes it to FromEntropy.
BuildFromEntropy ==
  /\ mem.pc = "start"
  /\ \E lang \in Languages, entropy \in MnemonicSamples, password \in Passwords :
       \E r \in {FromEntropyAt(<<entropy>>, lang, 1, password)} : Built(r, 1)

\* The caller passes a mnemonic string to FromString.
BuildFromString ==
  /\ mem.pc = "start"
  /\ \E lang \in Languages, entropy \in MnemonicSamples, password \in Passwords :
       \E w \in {wordsFromEntropy(lang, entropy)} :
         \E r \in {FromStringAt(<<>>, lang, compileMnemonic(w.words), password)} :
           Built(r, 0)

\* e := m.Entropy()
TakeEntropy ==
  /\ mem.pc = "built"
  /\ mem.entropy = 0
  /\ mem' = [mem EXCEPT !.entropy = Entropy(mem.m)]
  /\ UNCHANGED <<codec, api, gen, cipher, heap, procs, text>>

\* w := m.Words()
TakeWords ==
  /\ mem.pc = "built"
  /\ mem.words = 0
  /\ mem' = [mem EXCEPT !.words = Words(mem.m)]
  /\ UNCHANGED <<codec, api, gen, cipher, heap, procs, text>>

\* s := m.Seed()
TakeSeed ==
  /\ mem.pc = "built"
  /\ mem.seed = 0
  /\ mem' = [mem EXCEPT !.seed = Seed(mem.m)]
  /\ UNCHANGED <<codec, api, gen, cipher, heap, procs, text>>

\* slice[i] ^= 0xff, for a slice of bytes.
WriteBytes(slice) ==
  /\ \E i \in WriteIndices(Len(mem.arrays[slice])) :
       mem' = [mem EXCEPT !.arrays[slice][i] = Xor8(@, 255)]
  /\ UNCHANGED <<codec, api, gen, cipher, heap, procs, text>>

\* The caller writes to the slice it passed to FromEntropy.
WriteArg ==
  /\ mem.pc = "built"
  /\ mem.arg # 0
  /\ WriteBytes(mem.arg)

\* The caller writes to the slice m.Entropy() returned.
WriteEntropy ==
  /\ mem.pc = "built"
  /\ mem.entropy # 0
  /\ WriteBytes(mem.entropy)

\* The caller stores the last word of the list in the slice m.Words()
\* returned.
WriteWords ==
  /\ mem.pc = "built"
  /\ mem.words # 0
  /\ \E i \in WriteIndices(Len(mem.arrays[mem.words])) :
       mem' = [mem EXCEPT !.arrays[mem.words][i] =
                            WordAt(mem.m.lang, WordListSize - 1)]
  /\ UNCHANGED <<codec, api, gen, cipher, heap, procs, text>>

\* The caller writes to the slice m.Seed() returned.
WriteSeed ==
  /\ mem.pc = "built"
  /\ mem.seed # 0
  /\ \E i \in WriteIndices(Len(mem.arrays[mem.seed].mask)) :
       mem' = [mem EXCEPT !.arrays[mem.seed].mask[i] = Xor8(@, 255)]
  /\ UNCHANGED <<codec, api, gen, cipher, heap, procs, text>>

NextAlias ==
  \/ BuildFromEntropy \/ BuildFromString
  \/ TakeEntropy \/ TakeWords \/ TakeSeed
  \/ WriteArg \/ WriteEntropy \/ WriteWords \/ WriteSeed

SpecAlias == AliasInit /\ [][NextAlias]_vars

(***************************************************************************)
(* The string helpers under a caller that parses a text into words,        *)
(* compiles the words into a string again, and normalizes the text twice.  *)
(***************************************************************************)
\* The code points of the texts: a letter, the space, the ideographic space,
\* GA in composed form, KA and the combining voiced sound mark.
TextAlphabet == {97, 32, IdeographicSpace, KanaGA, KanaKA, KanaVoicedMark}

\* The longest text over the alphabet.
MaxTextLen == 3

\* Every text over the alphabet up to MaxTextLen code points (the empty text,
\* texts of separators only, separators at either end and next to each other
\* among them), and the mnemonic of the all-zero 16-byte entropy in each list,
\* normalized, with ideographic spaces, and with composed kana.
TextSamples ==
  UNION {{t \o <<>> : t \in [1..n -> TextAlphabet]} : n \in 0..MaxTextLen}
    \cup {MnemonicStringOf(lang, form, wordsFromEntropy(lang, ZeroBytes(16))) :
            lang \in Languages, form \in StringForms \ {"tampered"}}

TextInit ==
  /\ text \in {[pc |-> "start", x |-> x, words |-> <<>>, str |-> <<>>,
                norm |-> <<>>, again |-> <<>>] : x \in TextSamples}
  /\ codec = Idle
  /\ api = Idle
  /\ gen = Idle
  /\ cipher = Idle
  /\ heap = Idle
  /\ procs = Idle
  /\ mem = Idle

\* words := parseRawMnemonic(x)
ParseText ==
  /\ text.pc = "start"
  /\ text' = [text EXCEPT !.pc = "parsed", !.words = parseRawMnemonic(text.x)]
  /\ UNCHANGED <<codec, api, gen, cipher, heap, procs, mem>>

\* str := compileMnemonic(words)
CompileText ==
  /\ text.pc = "parsed"
  /\ text' = [text EXCEPT !.pc = "compiled",
                          !.str = compileMnemonic(text.words)]
  /\ UNCHANGED <<codec, api, gen, cipher, heap, procs, mem>>

\* norm := normalizeMnemonicString(x); again := normalizeMnemonicString(norm)
NormalizeText ==
  /\ text.pc = "compiled"
  /\ \E norm \in {normalizeMnemonicString(text.x)} :
       text' = [text EXCEPT !.pc = "normalized", !.norm = norm,
                            !.again = normalizeMnemonicString(norm)]
  /\ UNCHANGED <<codec, api, gen, cipher, heap, procs, mem>>

NextText == ParseText \/ CompileText \/ NormalizeText

SpecText == TextInit /\ [][NextText]_vars

(***************************************************************************)
(* Claims about the codec.                                                 *)
(***************************************************************************)
\* C1: for entropy of a valid length (16, 20, 24, 28, 32 bytes), leading zero
\* bytes included, and either word list, encode succeeds and decoding its words
\* succeeds and returns exactly the entropy, with the same length.
C1_RoundTrip ==
  Len(codec.entropy) \in ValidEntropyLens =>
    /\ codec.pc # "start" => codec.enc.err = NoErr
    /\ (codec.pc = "decoded" /\ codec.how = "asis") =>
         /\ codec.dec.err = NoErr
         /\ codec.dec.entropy = codec.entropy
         /\ Len(codec.dec.entropy) = Len(codec.entropy)

\* A 32-byte entropy that starts with a zero byte and ends with a non-zero one
\* went through encode and decode under the kana list.
C1_Witness ==
  /\ codec.pc = "decoded"
  /\ codec.how = "asis"
  /\ codec.lang = "kana"
  /\ Len(codec.entropy) = 32
  /\ codec.entropy[1] = 0
  /\ codec.entropy[32] # 0
  /\ codec.dec.entropy = codec.entropy

\* C2: encode fails with InvalidEntropyLength, and returns no words, for every
\* entropy whose byte length is not one of 16, 20, 24, 28, 32.
C2_EncodeRejectsInvalidLength ==
  (codec.pc # "start" /\ Len(codec.entropy) \notin ValidEntropyLens) =>
    /\ codec.enc.err = Err("ErrEntropyInvalidLength")
    /\ codec.enc.words = <<>>

\* C3: decode fails with InvalidWordCount, and returns no entropy, for every
\* word sequence whose length is not one of 12, 15, 18, 21, 24.
C3_DecodeRejectsInvalidCount ==
  (codec.pc = "decoded" /\ Len(codec.given) \notin ValidWordCounts) =>
    /\ codec.dec.err = Err("ErrWordSetInvalidLength")
    /\ codec.dec.entropy = <<>>

\* C4: for a word sequence of valid length whose words are all in the list,
\* decode succeeds exactly if the trailing checksum bits of the concatenated
\* indices are the top bits of the first byte of SHA-256 of the leading bits,
\* and fails with ChecksumMismatch and no entropy otherwise; so a valid
\* mnemonic with any of its checksum bits changed is refused.
C4_ChecksumVerified ==
  (/\ codec.pc = "decoded"
   /\ Len(codec.given) \in ValidWordCounts
   /\ AllWordsKnown(codec.lang, codec.given)) =>
    /\ codec.dec.err = NoErr
         <=> RefChecksumMatches(WordsBits(codec.lang, codec.given))
    /\ codec.dec.err # NoErr =>
         /\ codec.dec.err = Err("ErrChecksumIncorrect")
         /\ codec.dec.entropy = <<>>
    /\ (codec.how = "tampered" /\ Len(codec.entropy) \in ValidEntropyLens) =>
         codec.dec.err = Err("ErrChecksumIncorrect")

\* The 24 words of a 32-byte entropy were refused after the lowest checksum bit
\* alone was flipped.
C4_Witness ==
  /\ codec.pc = "decoded"
  /\ codec.how = "tampered"
  /\ Len(codec.entropy) = 32
  /\ Len(codec.given) = 24
  /\ codec.given = TamperLastWord(codec.lang, codec.enc.words, 1)
  /\ codec.dec.err = Err("ErrChecksumIncorrect")

\* C5: for entropy of a valid length, encode returns wordCount words, word i
\* being the word of the i-th 11-bit group, most significant first, of the
\* entropy bits followed by the top checksumBits bits of the first byte of
\* SHA-256(entropy).
C5_EncodeBitLayout ==
  (codec.pc = "encoded" /\ Len(codec.entropy) \in ValidEntropyLens) =>
    /\ codec.enc.err = NoErr
    /\ Len(codec.enc.words) = (3 * Len(codec.entropy)) \div 4
    /\ codec.enc.words = RefWords(codec.lang, RefStream(codec.entropy))

\* A 20-byte entropy with two leading zero bytes was encoded to 15 words.
C5_Witness ==
  /\ codec.pc = "encoded"
  /\ Len(codec.entropy) = 20
  /\ codec.entropy[1] = 0
  /\ codec.entropy[20] # 0
  /\ Len(codec.enc.words) = 15

\* C12: whenever decode succeeds, the entropy it returns has exactly the
\* entropy length of the size selected by the word count, one of 16, 20, 24,
\* 28, 32 bytes: shorter values are left-padded with zero bytes and no
\* result is longer.
C12_DecodeOutputLength ==
  (codec.pc = "decoded" /\ codec.dec.err = NoErr) =>
    /\ Len(codec.dec.entropy) \in ValidEntropyLens
    /\ Len(codec.dec.entropy)
         = sizes[sizeParamsFromWordSetLen(Len(codec.given)).sizeType + 1].entropyLen

\* The leftmost word of words that is not in the list of lang.
FirstUnknownWord(lang, words) ==
  words[CHOOSE i \in 1..Len(words) :
          /\ ~LookupWord(lang, words[i]).found
          /\ \A j \in 1..(i - 1) : LookupWord(lang, words[j]).found]

\* C13: decode checks the word count first, then looks the words up from left
\* to right, then checks the checksum: a word sequence of valid length with a
\* word that is not in the list fails with UnknownWord carrying the leftmost
\* such word, never with ChecksumMismatch and never with a result, and a
\* sequence of invalid length fails with InvalidWordCount even when it has
\* words that are not in the list.
C13_UnknownWordPrecedence ==
  (codec.pc = "decoded" /\ ~AllWordsKnown(codec.lang, codec.given)) =>
    /\ codec.dec.entropy = <<>>
    /\ Len(codec.given) \in ValidWordCounts =>
         codec.dec.err
           = ErrUnknownWord(FirstUnknownWord(codec.lang, codec.given))
    /\ Len(codec.given) \notin ValidWordCounts =>
         codec.dec.err = Err("ErrWordSetInvalidLength")

(***************************************************************************)
(* Claims about the Mnemonic type.                                         *)
(***************************************************************************)
\* C6: every Mnemonic m that FromEntropy or FromString returns has consistent
\* views: decoding m.String() under m's language gives m.Entropy(), encoding
\* m.Entropy() gives back m.String() (so m.String() is the normalized string
\* joined with single spaces), and m.Words() are the words of m.String().
C6_ViewsConsistent ==
  (api.pc # "start" /\ api.res.err = NoErr) =>
    /\ entropyFromWords(api.lang, parseRawMnemonic(String(api.res.m)))
         = [entropy |-> Entropy(api.res.m), err |-> NoErr]
    /\ compileMnemonic(wordsFromEntropy(api.lang, Entropy(api.res.m)).words)
         = String(api.res.m)
    /\ String(api.res.m) = normalizeMnemonicString(String(api.res.m))
    /\ Words(api.res.m) = stringsSplit(String(api.res.m), normalizedSeparator)

\* C7: the seed of a Mnemonic is that of its normalized mnemonic string and
\* the passphrase, 64 bytes long: two strings with the same normalization,
\* given to FromString with the same passphrase, give the same seed, which is
\* also the seed FromEntropy gives for the decoded entropy.
C7_SeedFromNormalizedString ==
  /\ (api.pc # "start" /\ api.res.err = NoErr) =>
       /\ Seed(api.res.m).keyLen = 64
       /\ api.by = "FromString" =>
            Seed(api.res.m)
              = seedFromMnemonicString(normalizeMnemonicString(api.raw),
                                       api.password)
  /\ (/\ api.pc = "rebuilt"
      /\ api.res.err = NoErr
      /\ api.res2.err = NoErr
      /\ api.by2 = "FromString" =>
           normalizeMnemonicString(api.raw) = normalizeMnemonicString(api.raw2)) =>
       Seed(api.res.m) = Seed(api.res2.m)

(***************************************************************************)
(* Claims about EncryptEntropy.                                            *)
(***************************************************************************)
\* C8: under either key derivation, EncryptEntropy succeeds for every byte
\* sequence and password, its output is as long as its input, and encrypting
\* the output again with the same password gives the input back.
C8_EncryptInvolution ==
  /\ cipher.pc # "start" =>
       /\ cipher.out.err = NoErr
       /\ Len(cipher.out.entropy) = Len(cipher.entropy)
  /\ cipher.pc = "decrypted" =>
       /\ cipher.back.err = NoErr
       /\ cipher.back.entropy = cipher.entropy

\* Under the PBKDF2 key derivation, 33 bytes (two blocks and a byte) were
\* encrypted to something else and encrypted again to themselves.
C8_Witness ==
  /\ cipher.pc = "decrypted"
  /\ cipher.kdf = "pbkdf2"
  /\ Len(cipher.entropy) = 33
  /\ cipher.out.entropy # cipher.entropy
  /\ cipher.out.entropy[33] # cipher.entropy[33]
  /\ cipher.back.entropy = cipher.entropy

(***************************************************************************)
(* Claims about Generate.                                                  *)
(***************************************************************************)
\* C10: Generate returns an error and no Mnemonic when the randomness source
\* returns an error or fewer bytes than entropyLen (ErrEntropyNotFullyRead when
\* it is only short); it returns a Mnemonic only when exactly entropyLen bytes
\* were read without error, and the Mnemonic's entropy is those bytes.
C10_RandomSourceFailure ==
  gen.pc = "done" =>
    /\ (gen.rd.err # NoErr \/ Len(gen.rd.data) < sizes[gen.size].entropyLen) =>
         /\ gen.res.err # NoErr
         /\ gen.res.m = NilMnemonic
    /\ (gen.rd.err = NoErr /\ Len(gen.rd.data) < sizes[gen.size].entropyLen) =>
         gen.res.err = Err("ErrEntropyNotFullyRead")
    /\ gen.res.err = NoErr =>
         /\ gen.rd.err = NoErr
         /\ Len(gen.rd.data) = sizes[gen.size].entropyLen
         /\ ~gen.res.m.nil
         /\ Entropy(gen.res.m) = gen.rd.data

\* The source returned one byte less than the 32 asked, without an error, and
\* Generate returned ErrEntropyNotFullyRead.
C10_Witness ==
  /\ gen.pc = "done"
  /\ sizes[gen.size].entropyLen = 32
  /\ gen.rd.err = NoErr
  /\ Len(gen.rd.data) = 31
  /\ gen.res.err = Err("ErrEntropyNotFullyRead")
  /\ gen.res.m = NilMnemonic
(***************************************************************************)
(* Claims about concurrent calls.                                          *)
(***************************************************************************)
\* C9: in every interleaving of concurrent calls of encode, decode, seed
\* derivation and EncryptEntropy, the big integers of the sizes table and the
\* shared constants 1, 2, 2047 and 2048 keep their initial values, and every
\* call returns what it returns when it runs alone.
C9_ConcurrencySafe ==
  /\ \A a \in GlobalAddrs : heap[a] = PackageHeap[a]
  /\ \A p \in Procs :
       procs[p].pc = "done" => procs[p].res = Alone(procs[p].call)

\* An encode and a decode ran interleaved to their ends, and both succeeded.
C9_Witness ==
  /\ procs[1].pc = "done"
  /\ procs[2].pc = "done"
  /\ procs[1].call.op = "wordsFromEntropy"
  /\ procs[2].call.op = "entropyFromWords"
  /\ procs[1].res.err = NoErr
  /\ procs[2].res.err = NoErr
  /\ Len(procs[1].res.val) = 12
  /\ Len(procs[2].res.val) = 20

(***************************************************************************)
(* Claims about slices shared with the caller.                             *)
(***************************************************************************)
\* C11: once FromEntropy or FromString has returned a Mnemonic m, nothing the
\* caller does changes what m.Entropy(), m.Words(), m.String() and m.Seed()
\* return: writing to the slice passed to FromEntropy, or to a slice that
\* m.Entropy(), m.Words() or m.Seed() returned, leaves them as they were when
\* m was returned.
C11_ImmutableOnceBuilt ==
  mem.pc = "built" => ViewsOf(mem.arrays, mem.m) = mem.built

(***************************************************************************)
(* Claims about the string helpers.                                        *)
(***************************************************************************)
\* C14: for every text x, compiling the words parsed from x gives the
\* normalization of x, and normalizing is idempotent: the normalization of
\* the normalized text, and of the compiled string, is that text again.
C14_NormalizerIdempotent ==
  text.pc = "normalized" =>
    /\ text.str = text.norm
    /\ text.again = text.norm
    /\ normalizeMnemonicString(text.str) = text.str
    /\ compileMnemonic(parseRawMnemonic(text.str)) = text.str

\* A text of an ideographic space, a space and a composed GA was parsed into
\* two empty words and the decomposed GA, and compiled to its normalization,
\* which is not the text itself.
C14_Witness ==
  /\ text.pc = "normalized"
  /\ text.x = <<IdeographicSpace, 32, KanaGA>>
  /\ text.words = <<<<>>, <<>>, <<KanaKA, KanaVoicedMark>>>>
  /\ text.norm # text.x
  /\ text.str = text.norm

====
